---------------------------- MODULE Spec2Model ----------------------------
(***************************************************************************)
(* A model of the concurrency and resource core of ghostselfbot:           *)
(*   - CacheManager      (util/CacheManager.js, src/unnamed/part_003)      *)
(*   - RESTManager       (rest/RESTManager.js,  src/unnamed/part_000)      *)
(*   - ThrottlingManager (src/dist/util/ThrottlingManager.js)              *)
(* Each component has its own specification (SpecCache, SpecRest,          *)
(* SpecThrottle); the variables of the other components stay at their      *)
(* initial values.  Time is Date.now() in milliseconds.                    *)
(***************************************************************************)
EXTENDS Integers, Sequences, FiniteSets, Bags, TLC

\* ------------------------------------------------------------------ bounds
MaxSizeBound == 2       \* the configured *CacheMaxSize ranges over 0..MaxSizeBound
MaxCacheTime == 2       \* the cache clock runs over 0..MaxCacheTime
MaxRetryLimit == 1      \* the configured retryLimit ranges over 1..MaxRetryLimit
MaxSends == 3           \* requests sent in one behaviour, by all calls of make() together
MaxStarts == 4          \* callback executions started in one behaviour, by all operations
MaxMinutes == 1          \* the throttle clock advances while now < MaxMinutes * 60000
MaxDrainTimers == 2      \* drain timers pending in an unbounded run of the manager
MaxSockets == 2          \* gateway sockets created in one behaviour
MaxHellos == 2           \* HELLO frames processed in one behaviour
MaxPathPieces == 4       \* the pieces ("/", runs of digits, runs of letters) of a path
MaxSubscribes == 3        \* the subscribe() calls of a run
MaxHandleCalls == 2       \* the calls of one unsubscribe function
GatewayHorizon == 9000   \* the gateway clock advances while now < GatewayHorizon

\* ------------------------------------------------------ configurations drawn
LifetimeChoices == {0, 1}        \* options.<kind>CacheLifetime (ms); 0 = no expiry
SweepIntervalChoices == {0, 1}   \* options.sweepInterval (ms); 0 = no sweep timer

VARIABLES
  now,            \* Date.now()
  \* ---- CacheManager
  maxSize,        \* options.<kind>CacheMaxSize, per store
  lifetime,       \* options.<kind>CacheLifetime, per store
  sweepInterval,  \* options.sweepInterval
  collection,     \* this.messages / users / channels / guilds / members (Map, insertion order)
  expirations,    \* this._messageExpires / ... (Map, insertion order)
  sweepTimer,     \* this._sweepInterval: the time of the next setInterval firing, or NoTimer
  lastSweep,      \* history: the time of the latest sweep() so far, or NoTimer
  lastEvicted,    \* observation: the id evicted by the addX call just made, or null
  swept,          \* observation: the counts the sweep() just made returned, or NoCounts
  \* ---- RESTManager
  retryLimit,     \* this.retryLimit
  rateLimits,     \* this._rateLimits (Map), as _processRateLimit fills it
  calls,          \* the calls of make(): where each is in _request / _handleResponse
  blockedUntil,   \* history: per route, the latest reset + restTimeOffset a processed
                  \* response with remaining = 0 and a future reset has announced
  \* ---- ThrottlingManager
  maxRequestsPerMinute,  \* this._maxRequestsPerMinute
  throttleRetryAfter,    \* this._retryAfter (ms)
  bufferSize,            \* this._bufferSize, as the fraction num / den
  requestLog,     \* this._requestLog: route -> the start times logged
  queue,          \* this._queue: route -> the waiting callbacks, each with the ticket
                  \* (history) that numbers the calls of _enqueue
  rateLimit,      \* this._rateLimit: route -> limited?
  limitTimers,    \* this._limitTimers: route -> when the pending expiry timer fires
  drainTimers,    \* the pending setTimeout(() => this._processQueue(route), ...): a bag
  stats,          \* this._stats
  ops,            \* the operations given to throttle(): promise, executions, history
  nextTicket,     \* history: the ticket of the next call of _enqueue
  statsReturned,  \* observation: <<the object the getStats() just made returned>>, or
                  \* <<>> after any other step
  relativeClock,  \* representation: FALSE when the times of the manager are kept as
                  \* Date.now() values; TRUE when they are kept relative to now, the
                  \* tickets relative to the oldest one waiting, and the statistics
                  \* are not kept (a finite state space for unbounded runs)
  \* ---- Client (gateway)
  token,              \* this._token
  connected,          \* this.connected
  user,               \* this.user
  sequence,           \* this._sequence; NoSequence before any packet carried one
  sequenceFrom,       \* history: the socket whose packet set this._sequence
  sessionId,          \* this._sessionId; the READY of socket k gives session k
  heartbeatInterval,  \* this._heartbeatInterval: the id of an interval, or 0 for null
  ws,                 \* this._ws: a socket, or 0 for null
  wsStats,            \* this.ws: ping, lastHeartbeatAck, lastHeartbeatSent
  sockets,            \* the sockets created by new WebSocket(...), in order
  intervals,          \* the setInterval timers armed: id -> period, next firing, socket
                      \* whose HELLO armed it
  intervalsSet,       \* the calls of setInterval so far (the next id)
  reconnectTimers,    \* the pending setTimeout(..., 5000) of _onClose: a bag of times
  discovery,          \* the axios.get of _connectToGateway under way: a bag of origins
  loginPromise,       \* the promise login() returned
  emitted,            \* the events the latest handler emitted
  frames,             \* the frames the latest handler sent
  destroyed,          \* history: destroy() has been called
  exited,             \* the process ended on an uncaught exception
  sendThrowsAfterClose, \* the ws version installed: send() on a closing or closed
                        \* socket throws (TRUE) or drops the frame (FALSE)
  \* ---- route normalization
  paths,            \* two request paths, each cut into "/" and maximal runs of digits
                    \* or of other characters
  formattedRoutes,  \* <<formattedRoute of throttle() for each path>>, or <<>> before
  apiRoutes,        \* <<what _getAPIRoute returns for each path>>, or <<>> before
  \* ---- EventTracker
  subscribers,      \* this._subscribers: patternKey -> the array it holds (a reference)
  arrays,           \* the subscriber arrays created so far; an array stays alive in
                    \* the closures of its unsubscribe functions after the Map drops it
  handles,          \* the unsubscribe functions returned so far, in order: what each
                    \* closure holds, and how often it has been called (history)
  notified          \* observation: the event trackEvent just recorded and how often
                    \* each callback was invoked for it, or NoNotification

cacheVars == <<maxSize, lifetime, sweepInterval, collection, expirations,
               sweepTimer, lastSweep, lastEvicted, swept>>

restVars == <<retryLimit, rateLimits, calls, blockedUntil>>

throttleConfig == <<maxRequestsPerMinute, throttleRetryAfter, bufferSize, relativeClock>>

throttleVars == <<throttleConfig, requestLog, queue, rateLimit, limitTimers, drainTimers,
                  stats, ops, nextTicket, statsReturned>>

gatewayVars == <<token, connected, user, sequence, sequenceFrom, sessionId,
                 heartbeatInterval, ws, wsStats, sockets, intervals, intervalsSet,
                 reconnectTimers, discovery, loginPromise, emitted, frames, destroyed,
                 exited>>

routeVars == <<paths, formattedRoutes, apiRoutes>>

trackerVars == <<subscribers, arrays, handles, notified>>

vars == <<now, cacheVars, restVars, throttleVars, gatewayVars, sendThrowsAfterClose,
         routeVars, trackerVars>>

\* what no RESTManager method writes: its options and the other components
restFrame == <<retryLimit, cacheVars, throttleVars, gatewayVars, sendThrowsAfterClose,
              routeVars, trackerVars>>

\* what no CacheManager method writes: its options and the other components
cacheFrame == <<maxSize, lifetime, sweepInterval, restVars, throttleVars, gatewayVars,
                sendThrowsAfterClose, routeVars, trackerVars>>

\* what no ThrottlingManager method writes: its options and the other components
throttleFrame == <<throttleConfig, cacheVars, restVars, gatewayVars, sendThrowsAfterClose,
                  routeVars, trackerVars>>

\* what no Client method writes: the ws version and the other components
gatewayFrame == <<sendThrowsAfterClose, cacheVars, restVars, throttleVars, routeVars, trackerVars>>

null == "null"
NoTimer == 0 - 1

\* -------------------------------------------------- a JS Map, in insertion order
\* A Map is a sequence of [k, v] records with pairwise distinct keys.
MapKeys(m) == [i \in 1..Len(m) |-> m[i].k]

MapHas(m, key) == \E i \in 1..Len(m) : m[i].k = key

MapGet(m, key) == LET i == CHOOSE i \in 1..Len(m) : m[i].k = key IN m[i].v

\* Map.prototype.set: an existing key keeps its position, a new key goes last.
MapSet(m, key, val) ==
  IF MapHas(m, key)
    THEN [i \in 1..Len(m) |-> IF m[i].k = key THEN [k |-> key, v |-> val] ELSE m[i]]
    ELSE Append(m, [k |-> key, v |-> val])

\* Map.prototype.delete
RECURSIVE MapDelete(_, _)
MapDelete(m, key) ==
  IF m = <<>> THEN <<>>
  ELSE IF Head(m).k = key THEN Tail(m)
  ELSE <<Head(m)>> \o MapDelete(Tail(m), key)

\* ------------------------------------------------------------ CacheManager
Stores == {"messages", "users", "channels", "guilds", "members"}
Ids == {"a", "b", "c"}
Data == {"d1", "d2"}

\* The loop of _getOldestEntry over expirations.entries(): strict <, so the first
\* entry with the least time wins.  oldestTime starts at Infinity (inf = TRUE).
RECURSIVE OldestScan(_, _, _, _)
OldestScan(exp, oldestId, oldestTime, inf) ==
  IF exp = <<>> THEN oldestId
  ELSE IF inf \/ Head(exp).v < oldestTime
    THEN OldestScan(Tail(exp), Head(exp).k, Head(exp).v, FALSE)
    ELSE OldestScan(Tail(exp), oldestId, oldestTime, inf)

\* A plausible slip: the scan keeps the latest expiration (and the last-inserted key).
getOldestEntryNewest(coll, exp) ==
  IF Len(coll) = 0 THEN null
  ELSE IF exp = <<>> THEN coll[Len(coll)].k
  ELSE LET i == CHOOSE i \in 1..Len(exp) : \A j \in 1..Len(exp) : exp[j].v <= exp[i].v
       IN exp[i].k

getOldestEntry(coll, exp) ==
  IF Len(coll) = 0 THEN null
  ELSE LET oldestId == OldestScan(exp, null, 0, TRUE)
       IN IF oldestId = null THEN coll[1].k ELSE oldestId

\* A plausible slip: a full store refuses the new entry instead of evicting.
AddResultRefusesWhenFull(coll, exp, max, life, id, data, t) ==
  IF Len(coll) >= max
    THEN [coll |-> coll, exp |-> exp, evicted |-> null]
    ELSE [coll |-> MapSet(coll, id, data),
          exp  |-> IF life > 0 THEN MapSet(exp, id, t + life) ELSE exp,
          evicted |-> null]

\* What addX leaves in the store's two maps.
AddResult(coll, exp, max, life, id, data, t) ==
  LET oldestId == IF Len(coll) >= max THEN getOldestEntry(coll, exp) ELSE null
      c1 == IF oldestId # null THEN MapDelete(coll, oldestId) ELSE coll
      e1 == IF oldestId # null THEN MapDelete(exp, oldestId) ELSE exp
  IN [coll |-> MapSet(c1, id, data),
      exp  |-> IF life > 0 THEN MapSet(e1, id, t + life) ELSE e1,
      evicted |-> oldestId]

\* no sweep() has just returned
NoCounts == [s \in Stores |-> NoTimer]

\* The five stores share no state (each addX / removeX / getX touches only its own
\* two maps), so the model keeps entries in one store at a time: any of the five.
OthersEmpty(s) == \A t \in Stores \ {s} : collection[t] = <<>>

\* addMessage / addUser / addChannel / addGuild / addMember; returns data
add(s, id, data) ==
  /\ OthersEmpty(s)
  /\ LET r == AddResult(collection[s], expirations[s], maxSize[s], lifetime[s], id, data, now)
     IN /\ collection' = [collection EXCEPT ![s] = r.coll]
        /\ expirations' = [expirations EXCEPT ![s] = r.exp]
        /\ lastEvicted' = r.evicted
        /\ swept' = NoCounts
  /\ UNCHANGED <<now, cacheFrame, sweepTimer, lastSweep>>

\* removeMessage / removeUser / ...: what Map.delete returns
removeReturn(s, id) == MapHas(collection[s], id)

\* A plausible slip: removeX deletes the entry and leaves its expiration record.
removeKeepsExpiration(s, id) ==
  /\ collection[s] # <<>>
  /\ collection' = [collection EXCEPT ![s] = MapDelete(@, id)]
  /\ lastEvicted' = null
  /\ swept' = NoCounts
  /\ UNCHANGED <<now, cacheFrame, sweepTimer, lastSweep, expirations>>

remove(s, id) ==
  /\ collection[s] # <<>>  \* on an empty store the call changes nothing and returns false
  /\ collection' = [collection EXCEPT ![s] = MapDelete(@, id)]
  /\ expirations' = [expirations EXCEPT ![s] = MapDelete(@, id)]
  /\ lastEvicted' = null
  /\ swept' = NoCounts
  /\ UNCHANGED <<now, cacheFrame, sweepTimer, lastSweep>>

\* getMessage / getUser / ...: collection.get(id) || null
getReturn(s, id) ==
  IF MapHas(collection[s], id) THEN MapGet(collection[s], id) ELSE null

get(s, id) ==
  /\ collection[s] # <<>>  \* on an empty store the call returns null
  /\ getReturn(s, id) \in Data \cup {null}
  /\ UNCHANGED <<now, cacheFrame, sweepTimer,
                 collection, expirations, lastSweep, lastEvicted, swept>>

\* A plausible slip: the loop leaves out the test of the time and removes every entry
\* that carries an expiration.
SweepExpiredUntested(exp, life, t) ==
  IF life > 0 THEN {exp[i].k : i \in 1..Len(exp)} ELSE {}

\* One store's part of sweep(): the ids whose expiration has passed.
SweepExpired(exp, life, t) ==
  IF life > 0 THEN {exp[i].k : i \in {j \in 1..Len(exp) : t > exp[j].v}} ELSE {}

RECURSIVE MapDeleteAll(_, _)
MapDeleteAll(m, keys) ==
  IF m = <<>> THEN <<>>
  ELSE IF Head(m).k \in keys THEN MapDeleteAll(Tail(m), keys)
  ELSE <<Head(m)>> \o MapDeleteAll(Tail(m), keys)

\* the counts sweep() returns
sweepReturn ==
  [s \in Stores |-> Cardinality(SweepExpired(expirations[s], lifetime[s], now))]

SweepEffect ==
  LET gone == [s \in Stores |-> SweepExpired(expirations[s], lifetime[s], now)]
  IN /\ collection' = [s \in Stores |-> MapDeleteAll(collection[s], gone[s])]
     /\ expirations' = [s \in Stores |-> MapDeleteAll(expirations[s], gone[s])]
     /\ lastSweep' = now
     /\ lastEvicted' = null
     /\ swept' = sweepReturn

\* sweep() called directly
sweep ==
  /\ SweepEffect
  /\ UNCHANGED <<now, cacheFrame, sweepTimer>>

\* the setInterval callback armed by the constructor
sweepTick ==
  /\ sweepTimer # NoTimer
  /\ now >= sweepTimer
  /\ SweepEffect
  /\ sweepTimer' = sweepTimer + sweepInterval
  /\ UNCHANGED <<now, cacheFrame>>

\* A plausible slip: the stores are cleared and the sweep timer is left armed.
destroyKeepsTimer ==
  /\ collection' = [s \in Stores |-> <<>>]
  /\ expirations' = [s \in Stores |-> <<>>]
  /\ lastEvicted' = null
  /\ swept' = NoCounts
  /\ UNCHANGED <<now, cacheFrame, lastSweep, sweepTimer>>

\* destroy()
destroy ==
  /\ collection' = [s \in Stores |-> <<>>]
  /\ expirations' = [s \in Stores |-> <<>>]
  /\ sweepTimer' = NoTimer
  /\ lastEvicted' = null
  /\ swept' = NoCounts
  /\ UNCHANGED <<now, cacheFrame, lastSweep>>

\* The clock; a due sweep timer fires before time moves on.
cacheClock ==
  /\ now < MaxCacheTime
  /\ sweepTimer = NoTimer \/ now < sweepTimer
  /\ now' = now + 1
  /\ lastEvicted' = null
  /\ swept' = NoCounts
  /\ UNCHANGED <<cacheFrame, collection, expirations, sweepTimer, lastSweep>>

\* ------------------------------------------------------------- RESTManager
RestTimeOffset == 500        \* this.restTimeOffset, the default
RetryAfterDefault == 1000    \* this.retryAfter
BackoffBase == 1000          \* Math.floor(Math.random() * 1000) + 1000: the least delay
BackoffSpan == 1000          \* ... and the width of its range

CallIds == {"c1", "c2"}                     \* concurrent callers of make()
Methods == {"get", "post", "put", "patch", "delete"}
\* A path, cut into "/" and maximal runs of digits or of other characters.
DigitRuns == {"1", "2"}
PathChoices == {<<"/", "channels", "/", "1">>, <<"/", "channels", "/", "2">>}
MethodChoices == {"get"}                    \* the wrappers the model calls
Statuses == {200, 400, 401, 403, 404, 429, 500, 501, 502, 503, 504}
NoHeader == 0 - 1
RemainingChoices == {0, 1}                  \* x-ratelimit-remaining
ResetChoices == {2}                         \* x-ratelimit-reset (epoch seconds)
RetryAfterChoices == {NoHeader, 2}          \* retry-after (seconds), on a 429

\* String.prototype.toUpperCase on the method make() is given
toUpperCase(method) ==
  CASE method = "get" -> "GET"
    [] method = "post" -> "POST"
    [] method = "put" -> "PUT"
    [] method = "patch" -> "PATCH"
    [] method = "delete" -> "DELETE"

\* _getAPIRoute without query parameters: url.replace(/\/\d+/g, '/:id'), after
\* `${method}:`
getAPIRoute(method, url) ==
  <<method, ":">> \o
  [i \in 1..Len(url) |->
     IF url[i] \in DigitRuns /\ i > 1 /\ url[i - 1] = "/" THEN ":id" ELSE url[i]]

\* the x-ratelimit-bucket the server names for a request: one per route
BucketOf(call) == getAPIRoute(call.method, call.url)

\* _processRateLimit: the Map after the response's headers
processRateLimit(limits, h, bucket, path) ==
  IF h.bucket /\ h.remaining # NoHeader /\ h.reset # NoHeader
    THEN [b \in DOMAIN limits \cup {bucket} |->
            IF b = bucket
              THEN [remaining |-> h.remaining, reset |-> h.reset * 1000, path |-> path]
              ELSE limits[b]]
    ELSE limits

\* history: the 429 a call is waiting out (when it came, its retry-after header,
\* the requests the call had sent by then)
No429 == [at |-> NoTimer, retryAfter |-> NoHeader, sends |-> 0]

NewCall ==
  [pc |-> "idle", method |-> null, url |-> <<>>, retryCount |-> 0, wakeAt |-> NoTimer,
   result |-> null, sends |-> 0, allTransient |-> TRUE, last429 |-> No429]

\* axios(options) at the head of _request(options, retryCount): the request leaves
\* at once (no interceptor is attached to the axios it calls), unless axios throws
\* while setting the request up, which _request rethrows.
Sent(call, retryCount, sent) ==
  IF sent
    THEN [call EXCEPT !.pc = "inflight", !.retryCount = retryCount, !.wakeAt = NoTimer,
                      !.sends = @ + 1]
    ELSE [call EXCEPT !.pc = "rejected", !.retryCount = retryCount, !.wakeAt = NoTimer,
                      !.result = "SETUP_ERROR", !.allTransient = FALSE]

\* setTimeout(resolve, delay) and then _request(options, retryCount)
Retry(call, delay, retryCount) ==
  [call EXCEPT !.pc = "sleeping", !.wakeAt = now + delay, !.retryCount = retryCount]

Settle(call, pc, result) == [call EXCEPT !.pc = pc, !.result = result]

\* A plausible slip: the retry-after header is taken as milliseconds.
RetryAfterDelayNoScale(retryAfter) ==
  IF retryAfter # NoHeader THEN retryAfter ELSE RetryAfterDefault

\* the wait _handleResponse takes on a 429
RetryAfterDelay(retryAfter) ==
  IF retryAfter # NoHeader THEN retryAfter * 1000 ELSE RetryAfterDefault

\* A plausible slip: a 401 / 403 / 404 is retried like a server error.
HandleStatusRetryAll(call, status, retryAfter, data, backoff) ==
  IF status >= 200 /\ status < 300 THEN Settle(call, "resolved", data)
  ELSE IF status = 429 THEN Retry(call, RetryAfterDelay(retryAfter), call.retryCount)
  ELSE IF call.retryCount < retryLimit
    THEN Retry(call, backoff, call.retryCount + 1)
    ELSE Settle(call, "rejected", "SERVER_ERROR")

\* _handleResponse after _processRateLimit: what becomes of the call
HandleStatus(call, status, retryAfter, data, backoff) ==
  IF status >= 200 /\ status < 300 THEN Settle(call, "resolved", data)
  ELSE IF status = 429 THEN Retry(call, RetryAfterDelay(retryAfter), call.retryCount)
  ELSE CASE status = 401 -> Settle(call, "rejected", "UNAUTHORIZED")
         [] status = 403 -> Settle(call, "rejected", "FORBIDDEN")
         [] status = 404 -> Settle(call, "rejected", "NOT_FOUND")
         [] status \in {500, 502, 503, 504} ->
              IF call.retryCount < retryLimit
                THEN Retry(call, backoff, call.retryCount + 1)
                ELSE Settle(call, "rejected", "SERVER_ERROR")
         [] OTHER -> Settle(call, "rejected", "UNKNOWN_ERROR")

\* the catch branch of _request for error.request (no response received)
HandleNoResponse(call, backoff) ==
  IF call.retryCount < retryLimit
    THEN Retry(call, backoff, call.retryCount + 1)
    ELSE Settle(call, "rejected", "REQUEST_TIMEOUT")

\* history kept with each response (status 0: none came): the 429 being waited out,
\* and whether every attempt so far ended in a 5xx status or without response
Seen(call, status, retryAfter, before) ==
  [call EXCEPT !.last429 = IF status = 429
                             THEN [at |-> now, retryAfter |-> retryAfter,
                                   sends |-> before.sends]
                             ELSE No429,
               !.allTransient = before.allTransient /\ (status = 0 \/ status >= 500)]

RECURSIVE SumSends(_)
SumSends(cs) ==
  IF cs = {} THEN 0
  ELSE LET c == CHOOSE x \in cs : TRUE IN calls[c].sends + SumSends(cs \ {c})

TotalSends == SumSends(CallIds)

\* make(method, path) and the get / post / put / patch / delete wrappers.  The
\* callers are interchangeable: c2 calls once c1 has.
make(c, method, path, sent) ==
  /\ calls[c].pc = "idle"
  /\ c = "c2" => calls["c1"].pc # "idle"
  /\ TotalSends < MaxSends
  /\ calls' = [calls EXCEPT ![c] =
       Sent([@ EXCEPT !.method = toUpperCase(method), !.url = path], 0, sent)]
  /\ UNCHANGED <<now, restFrame, rateLimits, blockedUntil>>

\* history for the route of call c: the latest moment before which a processed
\* response (remaining = 0, reset in the future) has said no request may be sent
Announced(c, h) ==
  IF h.bucket /\ h.remaining = 0 /\ h.reset # NoHeader /\ h.reset * 1000 > now
    THEN LET r == BucketOf(calls[c])
             t == h.reset * 1000 + RestTimeOffset
         IN [b \in DOMAIN blockedUntil \cup {r} |->
               IF b = r /\ (r \notin DOMAIN blockedUntil \/ blockedUntil[r] < t)
                 THEN t ELSE blockedUntil[b]]
    ELSE blockedUntil

\* a response arrives: _request hands it (or error.response) to _handleResponse
handleResponse(c, status, h, retryAfter, data, backoff) ==
  /\ calls[c].pc = "inflight"
  /\ rateLimits' = processRateLimit(rateLimits, h, BucketOf(calls[c]), calls[c].url)
  /\ calls' = [calls EXCEPT ![c] =
       Seen(HandleStatus(@, status, retryAfter, data, backoff), status, retryAfter, @)]
  /\ blockedUntil' = Announced(c, h)
  /\ UNCHANGED <<now, restFrame>>

\* no response arrives (network failure, timeout): error.request
noResponse(c, backoff) ==
  /\ calls[c].pc = "inflight"
  /\ calls' = [calls EXCEPT ![c] = Seen(HandleNoResponse(@, backoff), 0, NoHeader, @)]
  /\ UNCHANGED <<now, restFrame, rateLimits, blockedUntil>>

\* the retry timer fires: _request(options, retryCount) again
wake(c, sent) ==
  /\ calls[c].pc = "sleeping"
  /\ now >= calls[c].wakeAt
  /\ TotalSends < MaxSends
  /\ calls' = [calls EXCEPT ![c] = Sent(@, @.retryCount, sent)]
  /\ UNCHANGED <<now, restFrame, rateLimits, blockedUntil>>

\* The clock moves to the next retry timer due; none is skipped.
restClock ==
  /\ \E c \in CallIds :
       /\ calls[c].pc = "sleeping"
       /\ calls[c].wakeAt > now
       /\ \A d \in CallIds : calls[d].pc = "sleeping" => calls[c].wakeAt <= calls[d].wakeAt
       /\ now' = calls[c].wakeAt
  /\ UNCHANGED <<restFrame, rateLimits, calls, blockedUntil>>

InitRest ==
  /\ retryLimit \in 1..MaxRetryLimit
  /\ rateLimits = <<>>
  /\ calls = [c \in CallIds |-> NewCall]
  /\ blockedUntil = <<>>

\* the rate-limit headers of a response: all absent, or the bucket with its
\* remaining and reset
RateHeaders ==
  {[bucket |-> FALSE, remaining |-> NoHeader, reset |-> NoHeader]}
    \cup [bucket : {TRUE}, remaining : RemainingChoices, reset : ResetChoices]

BackoffChoices == {BackoffBase, BackoffBase + BackoffSpan - 1}

NextRest ==
  \/ \E c \in CallIds, m \in MethodChoices, p \in PathChoices, sent \in BOOLEAN :
       make(c, m, p, sent)
  \/ \E c \in CallIds, st \in Statuses, h \in RateHeaders, data \in Data,
        ra \in RetryAfterChoices, bo \in BackoffChoices :
       /\ calls[c].pc = "inflight"
       /\ st # 429 => ra = NoHeader             \* read on a 429 only
       /\ st # 200 => data = "d1"               \* read on a 2xx only
       /\ st \notin {500, 502, 503, 504} => bo = BackoffBase  \* drawn on these only
       /\ handleResponse(c, st, h, ra, data, bo)
  \/ \E c \in CallIds, bo \in BackoffChoices : noResponse(c, bo)
  \/ \E c \in CallIds, sent \in BOOLEAN : wake(c, sent)
  \/ restClock

\* new CacheManager(options); the model gives the five stores the same maxSize and
\* the same lifetime.
InitCache ==
  /\ \E m \in 0..MaxSizeBound : maxSize = [s \in Stores |-> m]
  /\ \E l \in LifetimeChoices : lifetime = [s \in Stores |-> l]
  /\ sweepInterval \in SweepIntervalChoices
  /\ collection = [s \in Stores |-> <<>>]
  /\ expirations = [s \in Stores |-> <<>>]
  /\ sweepTimer = IF sweepInterval > 0 THEN sweepInterval ELSE NoTimer
  /\ lastSweep = NoTimer
  /\ lastEvicted = null
  /\ swept = NoCounts

NextCache ==
  \/ \E s \in Stores, id \in Ids, data \in Data : add(s, id, data)
  \/ \E s \in Stores, id \in Ids : remove(s, id)
  \/ \E s \in Stores, id \in Ids : get(s, id)
  \/ sweep
  \/ sweepTick
  \/ destroy
  \/ cacheClock

\* ------------------------------------------------------- ThrottlingManager
MaxRequestsDefault == 50             \* options.maxRequestsPerMinute || 50
ThrottleRetryAfterDefault == 2000    \* options.retryAfter || 2000
BufferSizeDefault == [num |-> 9, den |-> 10]    \* options.bufferSize || 0.9
WindowMs == 60000                    \* now - 60000 in _wouldExceedLimit
DrainCadence == 1000                 \* the setTimeout after a drained callback

OpOrder == <<"o1", "o2", "o3">>      \* the operations given to throttle(), in order
OpIds == {OpOrder[i] : i \in 1..Len(OpOrder)}
\* A route, cut into maximal runs of digits and of other characters.  The model
\* gives the route /y to the last operation only.
RawRoutes == {<<"/x/", "1">>, <<"/x/", "2">>, <<"/y">>}
LastOnlyRoutes == {<<"/y">>}
\* the options the model constructs a manager with; 0 stands for an absent option
ThrottleOptions ==
  {[maxRequestsPerMinute |-> 2, retryAfter |-> 30000, bufferSize |-> [num |-> 1, den |-> 1]],
   [maxRequestsPerMinute |-> 1, retryAfter |-> 30000, bufferSize |-> [num |-> 0, den |-> 1]]}
\* how a callback ends: it resolves, throws with status 429, throws otherwise
Outcomes == {"ok", "limited", "error"}
\* error.response.data.retry_after (ms) of a 429; 0 stands for absent
RetryAfterHints == {0, 1000}

\* route.replace(/\d+/g, ':id')
FormatRoute(route) ==
  [i \in 1..Len(route) |-> IF route[i] \in DigitRuns THEN ":id" ELSE route[i]]

\* Map.prototype.set / delete on a Map whose order of keys is not used
FnSet(f, k, v) == [x \in DOMAIN f \cup {k} |-> IF x = k THEN v ELSE f[x]]

FnDelete(f, k) ==
  IF DOMAIN f \subseteq {k} THEN <<>> ELSE [x \in DOMAIN f \ {k} |-> f[x]]

\* the zeroed this._stats
NewStats ==
  [totalRequests |-> 0, throttledRequests |-> 0, succeededRequests |-> 0,
   failedRequests |-> 0, lastRequest |-> null]

\* an operation not yet given to throttle(); burst, ticket, starts, drained and
\* startedAt are history: whether it was submitted at time 0 before any callback had
\* ended, the ticket of its latest _enqueue, its executions so far, the time
\* _processQueue last took it from the queue and started it, the times its
\* executions started
NewOp ==
  [state |-> "new", route |-> <<>>, burst |-> FALSE, inflight |-> 0, starts |-> 0,
   ticket |-> 0, result |-> null, drained |-> NoTimer, startedAt |-> <<>>]

\* the manager's fields and the operations, as one value the methods transform
Manager ==
  [requestLog |-> requestLog, queue |-> queue, rateLimit |-> rateLimit,
   limitTimers |-> limitTimers, drainTimers |-> drainTimers, stats |-> stats,
   ops |-> ops, nextTicket |-> nextTicket]

\* the tickets of the entries of the queue q, moved down by base
RECURSIVE ShiftTickets(_, _)
ShiftTickets(q, base) ==
  IF q = <<>> THEN <<>>
  ELSE <<[Head(q) EXCEPT !.ticket = @ - base]>> \o ShiftTickets(Tail(q), base)

\* The manager m in the relative representation: the oldest ticket waiting is 1 (the
\* tickets compare as before), and the statistics and the times of the starts, which
\* no decision of the manager reads, are not kept.
Relative(m) ==
  LET waiting == UNION {{m.queue[route][i].ticket : i \in 1..Len(m.queue[route])} :
                          route \in DOMAIN m.queue}
      base == IF waiting = {} THEN m.nextTicket - 1
              ELSE (CHOOSE t \in waiting : \A u \in waiting : t <= u) - 1
  IN [m EXCEPT !.queue = [route \in DOMAIN m.queue |->
                            ShiftTickets(m.queue[route], base)],
               !.ops = [o \in DOMAIN m.ops |->
                          [m.ops[o] EXCEPT !.ticket = IF @ > base THEN @ - base ELSE 0,
                                           !.drained = NoTimer,
                                           !.startedAt = <<>>]],
               !.nextTicket = @ - base,
               !.stats = NewStats]

\* the next state is the manager m
Becomes(m) ==
  LET n == IF relativeClock THEN Relative(m) ELSE m
  IN /\ requestLog' = n.requestLog
     /\ queue' = n.queue
     /\ rateLimit' = n.rateLimit
     /\ limitTimers' = n.limitTimers
     /\ drainTimers' = n.drainTimers
     /\ stats' = n.stats
     /\ ops' = n.ops
     /\ nextTicket' = n.nextTicket
     /\ statsReturned' = <<>>

\* A plausible slip: one limited flag for the whole manager.
LimitedAnyRoute(m, route) == \E r \in DOMAIN m.rateLimit : m.rateLimit[r]

\* this._rateLimit.get(route), as a condition
Limited(m, route) == route \in DOMAIN m.rateLimit /\ m.rateLimit[route]

\* A plausible slip: the limit is reached only above maxRequestsPerMinute * bufferSize.
wouldExceedLimitAbove(m, route, t) ==
  IF route \notin DOMAIN m.requestLog
    THEN [exceed |-> FALSE, m |-> [m EXCEPT !.requestLog = FnSet(@, route, <<>>)]]
    ELSE LET recentRequests ==
               SelectSeq(m.requestLog[route], LAMBDA time : time > t - WindowMs)
         IN [exceed |-> Len(recentRequests) * bufferSize.den
                          > maxRequestsPerMinute * bufferSize.num,
             m |-> [m EXCEPT !.requestLog = FnSet(@, route, recentRequests)]]

\* _wouldExceedLimit(route) at time t: its result, and the manager with the log it
\* leaves
wouldExceedLimit(m, route, t) ==
  IF route \notin DOMAIN m.requestLog
    THEN [exceed |-> FALSE, m |-> [m EXCEPT !.requestLog = FnSet(@, route, <<>>)]]
    ELSE LET recentRequests ==
               SelectSeq(m.requestLog[route], LAMBDA time : time > t - WindowMs)
         IN [exceed |-> Len(recentRequests) * bufferSize.den
                          >= maxRequestsPerMinute * bufferSize.num,
             m |-> [m EXCEPT !.requestLog = FnSet(@, route, recentRequests)]]

\* _enqueue(route, () => this._executeCallback(route, callback, resolve, reject)) for
\* the operation o
enqueue(m, route, o) ==
  LET q == IF route \in DOMAIN m.queue THEN m.queue[route] ELSE <<>>
  IN [m EXCEPT !.queue = FnSet(@, route, Append(q, [op |-> o, ticket |-> m.nextTicket])),
               !.ops[o].ticket = m.nextTicket,
               !.nextTicket = @ + 1,
               !.stats.throttledRequests = @ + 1]

\* setTimeout(() => this._processQueue(route), delay) at time t
setDrainTimer(m, route, at) ==
  [m EXCEPT !.drainTimers = @ (+) SetToBag({[route |-> route, at |-> at]})]

\* _logRequest(route) at time t
logRequest(m, route, t) ==
  LET log == IF route \in DOMAIN m.requestLog THEN m.requestLog[route] ELSE <<>>
  IN [m EXCEPT !.requestLog = FnSet(@, route, Append(log, t)),
               !.stats.lastRequest = t,
               !.stats.totalRequests = @ + 1,
               !.stats.succeededRequests = @ + 1]

\* _executeCallback up to its await: the start is logged and the callback is called
executeCallback(m, route, o, t) ==
  [logRequest(m, route, t) EXCEPT !.ops[o].inflight = @ + 1, !.ops[o].starts = @ + 1,
                                  !.ops[o].startedAt = Append(@, t)]

\* A plausible slip: the callback is taken from the back of the queue (pop).
pop(q) == [item |-> q[Len(q)], rest |-> SubSeq(q, 1, Len(q) - 1)]

\* A plausible slip: the callback is read from the front and left in the queue.
peek(q) == [item |-> Head(q), rest |-> q]

\* Array.prototype.shift
shift(q) == [item |-> Head(q), rest |-> Tail(q)]

\* A plausible slip: the drain starts the next callback without asking the window.
processQueueUnchecked(m, route, t) ==
  IF route \notin DOMAIN m.queue \/ m.queue[route] = <<>>
    THEN m
    ELSE IF ~Limited(m, route)
      THEN LET next == shift(m.queue[route])
               s == [m EXCEPT !.queue[route] = next.rest]
               started == [executeCallback(s, route, next.item.op, t)
                             EXCEPT !.ops[next.item.op].drained = t]
           IN setDrainTimer(started, route, t + DrainCadence)
      ELSE setDrainTimer(m, route, t + throttleRetryAfter)

\* A plausible slip: the drain does not schedule its next run after a start.
processQueueOnce(m, route, t) ==
  IF route \notin DOMAIN m.queue \/ m.queue[route] = <<>>
    THEN m
    ELSE LET w == wouldExceedLimit(m, route, t)
         IN IF ~w.exceed /\ ~Limited(w.m, route)
              THEN LET next == shift(w.m.queue[route])
                       s == [w.m EXCEPT !.queue[route] = next.rest]
                   IN [executeCallback(s, route, next.item.op, t)
                         EXCEPT !.ops[next.item.op].drained = t]
              ELSE setDrainTimer(w.m, route, t + throttleRetryAfter)

\* _processQueue(route) at time t
processQueue(m, route, t) ==
  IF route \notin DOMAIN m.queue \/ m.queue[route] = <<>>
    THEN m
    ELSE LET w == wouldExceedLimit(m, route, t)
         IN IF ~w.exceed /\ ~Limited(w.m, route)
              THEN LET next == shift(w.m.queue[route])
                       s == [w.m EXCEPT !.queue[route] = next.rest]
                       started == [executeCallback(s, route, next.item.op, t)
                                     EXCEPT !.ops[next.item.op].drained = t]
                   IN setDrainTimer(started, route, t + DrainCadence)
              ELSE setDrainTimer(w.m, route, t + throttleRetryAfter)

\* _handleRateLimit(route, retryAfter) at time t: a timer pending for the route is
\* replaced
handleRateLimit(m, route, retryAfter, t) ==
  [m EXCEPT !.rateLimit = FnSet(@, route, TRUE),
            !.limitTimers = FnSet(@, route, t + retryAfter)]

\* resolve(value) / reject(value) of the promise throttle() returned: a settled
\* promise stays
settle(m, o, state, value) ==
  IF m.ops[o].state = "pending"
    THEN [m EXCEPT !.ops[o].state = state, !.ops[o].result = value]
    ELSE m

\* A plausible slip: every error of the callback is handled as a rate limit.
catchErrorRequeueAll(m, route, o, error, retryAfter, t) ==
  enqueue(handleRateLimit([m EXCEPT !.stats.failedRequests = @ + 1],
                          route, retryAfter, t),
          route, o)

\* A plausible slip: a callback that failed with status 429 twice is given up.
catchErrorCapped(m, route, o, error, retryAfter, t) ==
  LET failed == [m EXCEPT !.stats.failedRequests = @ + 1]
  IN IF error = "limited" /\ m.ops[o].starts < 2
       THEN enqueue(handleRateLimit(failed, route, retryAfter, t), route, o)
       ELSE settle(failed, o, "rejected", error)

\* the catch block of _executeCallback at time t, for the error the callback threw:
\* "limited" is an error with status 429, "error" an error with another status
catchError(m, route, o, error, retryAfter, t) ==
  LET failed == [m EXCEPT !.stats.failedRequests = @ + 1]     \* _logError
  IN IF error = "limited"
       THEN enqueue(handleRateLimit(failed, route, retryAfter, t), route, o)
       ELSE settle(failed, o, "rejected", error)

RECURSIVE SumStarts(_, _)
SumStarts(os, S) ==
  IF S = {} THEN 0
  ELSE LET o == CHOOSE x \in S : TRUE IN os[o].starts + SumStarts(os, S \ {o})

\* the callback executions started so far
TotalStarts(m) == SumStarts(m.ops, OpIds)

\* throttle(route, callback) for the operation o.  The operations are
\* interchangeable: they are submitted in the order o1, o2, o3.
throttle(o, route) ==
  /\ ops[o].state = "new"
  /\ \E i \in 1..Len(OpOrder) :
       OpOrder[i] = o /\ \A j \in 1..(i - 1) : ops[OpOrder[j]].state # "new"
  /\ LET formattedRoute == FormatRoute(route)
         m == [Manager EXCEPT !.ops[o].state = "pending",
                              !.ops[o].route = formattedRoute,
                              !.ops[o].burst =
                                (now = 0 /\ \A p \in OpIds : ops[p].inflight = ops[p].starts)]
         w == wouldExceedLimit(m, formattedRoute, now)
         after ==
           IF Limited(m, formattedRoute)
             THEN enqueue(m, formattedRoute, o)
             ELSE IF w.exceed
               THEN setDrainTimer(enqueue(w.m, formattedRoute, o), formattedRoute,
                                  now + throttleRetryAfter)
               ELSE executeCallback(w.m, formattedRoute, o, now)
     IN /\ TotalStarts(after) <= MaxStarts
        /\ Becomes(after)
  /\ UNCHANGED <<now, throttleFrame>>

\* an execution of o's callback ends, and _executeCallback goes on after its await
complete(o, outcome, hint) ==
  /\ ops[o].inflight > 0
  /\ LET route == ops[o].route
         m == [Manager EXCEPT !.ops[o].inflight = @ - 1]
         retryAfter == IF hint # 0 THEN hint ELSE throttleRetryAfter
     IN Becomes(IF outcome = "ok"
                  THEN settle(m, o, "resolved", outcome)
                  ELSE catchError(m, route, o, outcome, retryAfter, now))
  /\ UNCHANGED <<now, throttleFrame>>

\* a pending setTimeout(() => this._processQueue(route), ...) fires
drainFire(timer) ==
  /\ BagIn(timer, drainTimers)
  /\ timer.at <= now
  /\ LET m == [Manager EXCEPT !.drainTimers = @ (-) SetToBag({timer})]
         after == processQueue(m, timer.route, now)
     IN /\ TotalStarts(after) <= MaxStarts
        /\ Becomes(after)
  /\ UNCHANGED <<now, throttleFrame>>

\* the timer _handleRateLimit set for the route fires
limitFire(route) ==
  /\ route \in DOMAIN limitTimers
  /\ limitTimers[route] <= now
  /\ LET m == [Manager EXCEPT !.rateLimit = FnSet(@, route, FALSE),
                              !.limitTimers = FnDelete(@, route)]
         after == processQueue(m, route, now)
     IN /\ TotalStarts(after) <= MaxStarts
        /\ Becomes(after)
  /\ UNCHANGED <<now, throttleFrame>>

\* reset(): the limit timers are cleared with the Maps; the drain timers are not
reset ==
  /\ requestLog' = <<>>
  /\ queue' = <<>>
  /\ rateLimit' = <<>>
  /\ limitTimers' = <<>>
  /\ stats' = NewStats
  /\ statsReturned' = <<>>
  /\ UNCHANGED <<now, throttleFrame, drainTimers, ops, nextTicket>>

\* A plausible slip: activeLimits lists every route of _rateLimit, whatever its flag.
getStatsReturnAllRoutes ==
  [totalRequests |-> stats.totalRequests,
   throttledRequests |-> stats.throttledRequests,
   succeededRequests |-> stats.succeededRequests,
   failedRequests |-> stats.failedRequests,
   lastRequest |-> stats.lastRequest,
   activeQueues |-> [route \in DOMAIN queue |-> Len(queue[route])],
   activeLimits |-> DOMAIN rateLimit]

\* The object getStats() returns: the fields of _stats, activeQueues (route -> length
\* of its queue, for the routes of _queue) and activeLimits (the routes of _rateLimit
\* whose flag is true; the model keeps them as a set, without the order of the Map).
getStatsReturn ==
  [totalRequests |-> stats.totalRequests,
   throttledRequests |-> stats.throttledRequests,
   succeededRequests |-> stats.succeededRequests,
   failedRequests |-> stats.failedRequests,
   lastRequest |-> stats.lastRequest,
   activeQueues |-> [route \in DOMAIN queue |-> Len(queue[route])],
   activeLimits |-> {route \in DOMAIN rateLimit : rateLimit[route]}]

\* getStats(): builds a fresh object and writes no field of the manager.  A call
\* that follows another call without a step between them returns the same object
\* again and is left out.
getStats ==
  /\ statsReturned = <<>>
  /\ statsReturned' = <<getStatsReturn>>
  /\ UNCHANGED <<now, throttleFrame, requestLog, queue, rateLimit, limitTimers,
                 drainTimers, stats, ops, nextTicket>>

\* the times at which a pending timer fires
Deadlines ==
  {timer.at : timer \in BagToSet(drainTimers)}
    \cup {limitTimers[route] : route \in DOMAIN limitTimers}

\* the time t as it reads after d ms in the relative representation; a time a window
\* or more in the past reads as a window in the past (no comparison tells them apart)
Aged(t, d) == IF t - d < now - WindowMs THEN now - WindowMs ELSE t - d

\* the start times of a log, each after d ms
RECURSIVE AgedLog(_, _)
AgedLog(log, d) ==
  IF log = <<>> THEN <<>> ELSE <<Aged(Head(log), d)>> \o AgedLog(Tail(log), d)

\* The clock moves to the next timer due, and by a window when no timer is pending;
\* no timer is skipped.  In the relative representation the recorded times move back
\* instead.
throttleClock ==
  /\ now < MaxMinutes * WindowMs
  /\ \A d \in Deadlines : d > now
  /\ LET next == IF Deadlines = {} THEN now + WindowMs
                 ELSE CHOOSE d \in Deadlines : \A e \in Deadlines : d <= e
         ShiftTimer(timer) == [timer EXCEPT !.at = @ - (next - now)]
     IN IF relativeClock
          THEN /\ now' = now
               /\ requestLog' = [route \in DOMAIN requestLog |->
                                   AgedLog(requestLog[route], next - now)]
               /\ limitTimers' = [route \in DOMAIN limitTimers |->
                                    limitTimers[route] - (next - now)]
               /\ drainTimers' = BagOfAll(ShiftTimer, drainTimers)
          ELSE /\ now' = next
               /\ UNCHANGED <<requestLog, limitTimers, drainTimers>>
  /\ statsReturned' = <<>>
  /\ UNCHANGED <<throttleFrame, queue, rateLimit, stats, ops, nextTicket>>

\* the manager after construction, and the operations before any throttle()
InitManager ==
  /\ requestLog = <<>>
  /\ queue = <<>>
  /\ rateLimit = <<>>
  /\ limitTimers = <<>>
  /\ drainTimers = EmptyBag
  /\ stats = NewStats
  /\ ops = [o \in OpIds |-> NewOp]
  /\ nextTicket = 1
  /\ statsReturned = <<>>

\* new ThrottlingManager(options)
InitThrottle ==
  /\ \E options \in ThrottleOptions :
       /\ maxRequestsPerMinute = IF options.maxRequestsPerMinute # 0
                                   THEN options.maxRequestsPerMinute
                                   ELSE MaxRequestsDefault
       /\ throttleRetryAfter = IF options.retryAfter # 0
                                 THEN options.retryAfter
                                 ELSE ThrottleRetryAfterDefault
       /\ bufferSize = IF options.bufferSize.num # 0
                         THEN options.bufferSize
                         ELSE BufferSizeDefault
  /\ InitManager

NextThrottle ==
  \/ \E o \in OpIds, route \in RawRoutes :
       /\ route \in LastOnlyRoutes => o = OpOrder[Len(OpOrder)]
       /\ throttle(o, route)
  \/ \E o \in OpIds, outcome \in Outcomes, hint \in RetryAfterHints :
       /\ outcome # "limited" => hint = 0          \* read on a 429 only
       /\ complete(o, outcome, hint)
  \/ \E timer \in BagToSet(drainTimers) : drainFire(timer)
  \/ \E route \in DOMAIN limitTimers : limitFire(route)
  \/ getStats
  \/ throttleClock

\* the operation o is waiting in a queue
Queued(o) ==
  \E route \in DOMAIN queue : \E i \in 1..Len(queue[route]) : queue[route][i].op = o

\* the starts still to come for the operations not submitted yet or waiting
StartsDue == Cardinality({o \in OpIds : ops[o].state = "new" \/ Queued(o)})

\* the operations and the routes of an unbounded run
LiveOps == {"o1", "o2"}
LiveRoutes == {<<"/x/", "1">>}

\* The caller has a further operation to submit: the identifier of a settled
\* operation stands for a new one.
another(o) ==
  /\ ops[o].state \in {"resolved", "rejected"}
  /\ ops' = [ops EXCEPT ![o] = NewOp]
  /\ UNCHANGED <<now, throttleFrame, requestLog, queue, rateLimit, limitTimers,
                 drainTimers, stats, nextTicket, statsReturned>>

\* The manager with reset() among the calls of its user, on one route and without
\* hints in the 429 responses.
NextThrottleReset ==
  \/ \E o \in OpIds, route \in LiveRoutes : throttle(o, route)
  \/ \E o \in OpIds, outcome \in Outcomes : complete(o, outcome, 0)
  \/ \E timer \in BagToSet(drainTimers) : drainFire(timer)
  \/ \E route \in DOMAIN limitTimers : limitFire(route)
  \/ reset
  \/ throttleClock

\* An execution ends.  A 429 is drawn while the starts it leads to stay within
\* MaxStarts, so that no start is ever held back by that bound.
callbackEnds ==
  \E o \in OpIds, outcome \in Outcomes :
    /\ outcome = "limited" => TotalStarts(Manager) + StartsDue < MaxStarts
    /\ complete(o, outcome, 0)

\* The caller submits while fewer than MaxDrainTimers drain timers are pending:
\* every submission denied adds one, and they go on for as long as they find the
\* queue non-empty.
NextThrottleLive ==
  \/ \E o \in LiveOps, route \in LiveRoutes :
       /\ BagCardinality(drainTimers) < MaxDrainTimers
       /\ throttle(o, route)
  \/ \E o \in OpIds : another(o)
  \/ callbackEnds
  \/ \E timer \in BagToSet(drainTimers) : drainFire(timer)
  \/ \E route \in DOMAIN limitTimers : limitFire(route)
  \/ throttleClock

\* ------------------------------------------------------------------ Client
\* The gateway side of Client: login, the socket handlers, the heartbeat interval,
\* the reconnect timer and destroy.  The gateway, the ws socket and axios are the
\* environment: they deliver the discovery result, open / message / close events and
\* timer firings.  An 'error' listener is registered on the client (emit('error')
\* returns).

ReconnectDelay == 5000     \* setTimeout(..., 5000) in _onClose
CleanClose == 1000         \* the close code _onClose does not reconnect on
AuthFailedClose == 4004    \* the gateway's close code for a rejected IDENTIFY
AbnormalClose == 1006      \* the close code of a connection lost
CloseCodes == {CleanClose, AbnormalClose, AuthFailedClose}

\* Constants.OPCodes
OpDispatch == 0
OpHeartbeat == 1
OpIdentify == 2
OpResume == 6
OpReconnect == 7
OpHello == 10
OpHeartbeatAck == 11

\* login(token): a user token, and a value that is no token
TokenChoices == {"token", ""}
\* packet.d.heartbeat_interval of a HELLO (ms)
HeartbeatIntervals == {4000}
\* packet.s; 0 stands for a packet without s
NoSequence == 0

\* The data of a 'message' event: text that JSON.parse rejects, or the text of a
\* packet.
Packets ==
  {[op |-> OpHello, s |-> NoSequence, t |-> null, interval |-> h] : h \in HeartbeatIntervals}
    \cup {[op |-> OpHeartbeatAck, s |-> NoSequence, t |-> null, interval |-> 0],
          [op |-> OpReconnect, s |-> NoSequence, t |-> null, interval |-> 0]}
    \cup {[op |-> OpDispatch, s |-> 1, t |-> "READY", interval |-> 0],
          [op |-> OpDispatch, s |-> 2, t |-> "MESSAGE_CREATE", interval |-> 0],
          [op |-> OpDispatch, s |-> NoSequence, t |-> "TYPING_START", interval |-> 0]}

NoPacket == [op |-> 0 - 1, s |-> NoSequence, t |-> null, interval |-> 0]

Inbound ==
  {[text |-> "garbage", packet |-> NoPacket]}
    \cup {[text |-> "json", packet |-> p] : p \in Packets}

\* JSON.parse(data): the packet, or a SyntaxError
JSONparse(data) ==
  IF data.text = "json" THEN [ok |-> TRUE, packet |-> data.packet]
  ELSE [ok |-> FALSE, packet |-> NoPacket]

\* a socket made by new WebSocket(...): its readyState, the close code its 'close'
\* event carried (0 before), and the IDENTIFY frames sent on it (history)
NewSocket == [state |-> "connecting", code |-> 0, identifies |-> 0]

\* the client's fields and its environment, as one value the handlers transform
Client ==
  [token |-> token, connected |-> connected, user |-> user, sequence |-> sequence,
   sequenceFrom |-> sequenceFrom, sessionId |-> sessionId,
   heartbeatInterval |-> heartbeatInterval, ws |-> ws, wsStats |-> wsStats,
   sockets |-> sockets, intervals |-> intervals, intervalsSet |-> intervalsSet,
   reconnectTimers |-> reconnectTimers, discovery |-> discovery,
   loginPromise |-> loginPromise, emitted |-> emitted, frames |-> frames,
   destroyed |-> destroyed, exited |-> exited]

\* the next state is the client c
ClientBecomes(c) ==
  /\ token' = c.token
  /\ connected' = c.connected
  /\ user' = c.user
  /\ sequence' = c.sequence
  /\ sequenceFrom' = c.sequenceFrom
  /\ sessionId' = c.sessionId
  /\ heartbeatInterval' = c.heartbeatInterval
  /\ ws' = c.ws
  /\ wsStats' = c.wsStats
  /\ sockets' = c.sockets
  /\ intervals' = c.intervals
  /\ intervalsSet' = c.intervalsSet
  /\ reconnectTimers' = c.reconnectTimers
  /\ discovery' = c.discovery
  /\ loginPromise' = c.loginPromise
  /\ emitted' = c.emitted
  /\ frames' = c.frames
  /\ destroyed' = c.destroyed
  /\ exited' = c.exited

\* the client as a handler finds it: nothing emitted or sent yet
Entering == [Client EXCEPT !.emitted = {}, !.frames = <<>>]

\* this.emit(event, ...)
Emit(c, event) == [c EXCEPT !.emitted = @ \cup {event}]

\* An exception leaves the handler: the process ends with it, or the host goes on
\* (an uncaughtException handler).
Thrown(c, fatal) == [c EXCEPT !.exited = fatal]

\* this._ws.send(frame): the frame leaves on an open socket.  this._ws null, and a
\* socket still connecting, throw; after close() ws throws or drops the frame,
\* depending on its version.
CanSend(c) == c.ws # 0 /\ c.sockets[c.ws].state = "open"

SendThrows(c) ==
  \/ c.ws = 0
  \/ c.sockets[c.ws].state = "connecting"
  \/ c.sockets[c.ws].state \in {"closing", "closed"} /\ sendThrowsAfterClose

Send(c, frame) ==
  IF CanSend(c) THEN [c EXCEPT !.frames = Append(@, [frame EXCEPT !.socket = c.ws])]
  ELSE c

\* _connectToGateway(): axios.get(`${Constants.API.BASE}/gateway`) is under way for
\* login or for a reconnect
connectToGateway(c, origin) ==
  [c EXCEPT !.discovery = @ (+) SetToBag({origin})]

\* login(token)
login(t) ==
  /\ ~exited
  /\ loginPromise = "none"
  /\ ClientBecomes(
       IF t = ""
         THEN [Entering EXCEPT !.loginPromise = "rejected"]        \* TOKEN_INVALID
         ELSE connectToGateway([Entering EXCEPT !.token = t, !.loginPromise = "pending"],
                               "login"))
  /\ UNCHANGED <<now, gatewayFrame>>

\* the promise login() returned settles, once
settleLogin(c, state) ==
  IF c.loginPromise = "pending" THEN [c EXCEPT !.loginPromise = state] ELSE c

\* The gateway URL arrives: the socket is created with its four listeners and the
\* promise of _connectToGateway resolves; for login, login's promise resolves with it.
discoveryOk(origin) ==
  /\ ~exited
  /\ BagIn(origin, discovery)
  /\ Len(sockets) < MaxSockets
  /\ LET c == [Entering EXCEPT !.discovery = @ (-) SetToBag({origin}),
                               !.sockets = Append(@, NewSocket),
                               !.ws = Len(sockets) + 1]
     IN ClientBecomes(IF origin = "login"
                        THEN settleLogin(Emit(c, "debug"), "resolved")
                        ELSE c)
  /\ UNCHANGED <<now, gatewayFrame>>

\* axios.get fails: login rejects and emits 'error'; a reconnect emits 'error'
discoveryFail(origin) ==
  /\ ~exited
  /\ BagIn(origin, discovery)
  /\ LET c == Emit([Entering EXCEPT !.discovery = @ (-) SetToBag({origin})], "error")
     IN ClientBecomes(IF origin = "login" THEN settleLogin(c, "rejected") ELSE c)
  /\ UNCHANGED <<now, gatewayFrame>>

\* _onOpen()
wsOpen(k) ==
  /\ ~exited
  /\ sockets[k].state = "connecting"
  /\ ClientBecomes(Emit([Entering EXCEPT !.sockets[k].state = "open"], "debug"))
  /\ UNCHANGED <<now, gatewayFrame>>

\* _identify(): the result, and whether it threw
identify(c) ==
  IF CanSend(c)
    THEN [c |-> Emit([Send(c, [op |-> OpIdentify, d |-> 0, from |-> 0, socket |-> 0])
                        EXCEPT !.sockets[c.ws].identifies = @ + 1],
                     "debug"),
          threw |-> FALSE]
    ELSE IF SendThrows(c) THEN [c |-> c, threw |-> TRUE]
    ELSE [c |-> Emit(c, "debug"), threw |-> FALSE]

\* _sendHeartbeat() at time t: the result, and whether it threw
sendHeartbeat(c, t) ==
  IF CanSend(c) \/ ~SendThrows(c)
    THEN [c |-> Emit([Send(c, [op |-> OpHeartbeat, d |-> c.sequence,
                               from |-> c.sequenceFrom, socket |-> 0])
                        EXCEPT !.wsStats.lastHeartbeatSent = t],
                     "debug"),
          threw |-> FALSE]
    ELSE [c |-> c, threw |-> TRUE]

\* A plausible slip: a frame that cannot be parsed ends the connection state.
parseErrorDisconnects(c) == [Emit(c, "error") EXCEPT !.connected = FALSE]

\* the catch of JSON.parse in _onMessage
parseError(c) == Emit(c, "error")

\* _handleDispatch(packet) on socket k
handleDispatch(c, k, packet) ==
  CASE packet.t = "READY" ->
         Emit([c EXCEPT !.sessionId = k, !.user = "user", !.connected = TRUE], "ready")
    [] packet.t = "MESSAGE_CREATE" -> Emit(c, "message")
    [] OTHER -> c

\* _onMessage(data) on socket k at time t, after a successful parse: the result, and
\* whether it threw
onPacket(c, k, packet, t) ==
  LET seen == IF packet.s # NoSequence
                THEN [c EXCEPT !.sequence = packet.s, !.sequenceFrom = k]
                ELSE c
  IN CASE packet.op = OpHello ->
            LET id == seen.intervalsSet + 1
                armed == [seen EXCEPT !.intervals =
                                        FnSet(@, id, [period |-> packet.interval,
                                                      next |-> t + packet.interval,
                                                      socket |-> k]),
                                      !.intervalsSet = id,
                                      !.heartbeatInterval = id]
            IN identify(armed)
       [] packet.op = OpHeartbeatAck ->
            [c |-> Emit([seen EXCEPT !.wsStats.lastHeartbeatAck = t,
                                     !.wsStats.ping = t - seen.wsStats.lastHeartbeatSent],
                        "debug"),
             threw |-> FALSE]
       [] packet.op = OpDispatch ->
            [c |-> handleDispatch(seen, k, packet), threw |-> FALSE]
       [] OTHER -> [c |-> seen, threw |-> FALSE]

\* A 'message' event of socket k: _onMessage(data)
wsMessage(k, data, fatal) ==
  /\ ~exited
  /\ sockets[k].state \in {"open", "closing"}
  /\ data.text = "json" /\ data.packet.op = OpHello => intervalsSet < MaxHellos
  /\ LET parsed == JSONparse(data)
         done == IF parsed.ok THEN onPacket(Entering, k, parsed.packet, now)
                 ELSE [c |-> parseError(Entering), threw |-> FALSE]
     IN /\ ~done.threw => ~fatal
        /\ ClientBecomes(IF done.threw THEN Thrown(done.c, fatal) ELSE done.c)
  /\ UNCHANGED <<now, gatewayFrame>>

\* clearInterval(this._heartbeatInterval); this._heartbeatInterval = null
clearHeartbeat(c) ==
  IF c.heartbeatInterval # 0
    THEN [c EXCEPT !.intervals = FnDelete(@, c.heartbeatInterval),
                   !.heartbeatInterval = 0]
    ELSE c

\* A plausible slip: every close is followed by a reconnect.
onCloseAlwaysReconnects(c, code, t) ==
  [clearHeartbeat(Emit(c, "debug"))
     EXCEPT !.connected = FALSE,
            !.reconnectTimers = @ (+) SetToBag({t + ReconnectDelay})]

\* _onClose(code, reason) at time t
onClose(c, code, t) ==
  LET cleaned == [clearHeartbeat(Emit(c, "debug")) EXCEPT !.connected = FALSE]
  IN IF code = CleanClose
       THEN Emit(cleaned, "disconnect")
       ELSE [cleaned EXCEPT !.reconnectTimers = @ (+) SetToBag({t + ReconnectDelay})]

\* The 'close' event of socket k: _onClose(code, reason)
wsClose(k, code) ==
  /\ ~exited
  /\ sockets[k].state # "closed"
  /\ ClientBecomes(onClose([Entering EXCEPT !.sockets[k].state = "closed",
                                            !.sockets[k].code = code],
                           code, now))
  /\ UNCHANGED <<now, gatewayFrame>>

\* the heartbeat interval id fires: _sendHeartbeat()
heartbeatFire(id, fatal) ==
  /\ ~exited
  /\ id \in DOMAIN intervals
  /\ intervals[id].next <= now
  /\ LET c == [Entering EXCEPT !.intervals[id].next = @ + intervals[id].period]
         done == sendHeartbeat(c, now)
     IN /\ ~done.threw => ~fatal
        /\ ClientBecomes(IF done.threw THEN Thrown(done.c, fatal) ELSE done.c)
  /\ UNCHANGED <<now, gatewayFrame>>

\* the timer _onClose set fires: _connectToGateway()
reconnectFire(at) ==
  /\ ~exited
  /\ BagIn(at, reconnectTimers)
  /\ at <= now
  /\ ClientBecomes(connectToGateway(
       Emit([Entering EXCEPT !.reconnectTimers = @ (-) SetToBag({at})], "debug"),
       "reconnect"))
  /\ UNCHANGED <<now, gatewayFrame>>

\* this._ws.close(1000): the closing handshake starts, the 'close' event comes later
wsCloseCall(c) ==
  IF c.sockets[c.ws].state \in {"connecting", "open"}
    THEN [c EXCEPT !.sockets[c.ws].state = "closing"]
    ELSE c

\* destroy()
clientDestroy ==
  /\ ~exited
  /\ ~destroyed
  /\ LET cleared == clearHeartbeat([Entering EXCEPT !.destroyed = TRUE])
         closed == IF cleared.ws # 0 THEN [wsCloseCall(cleared) EXCEPT !.ws = 0]
                   ELSE cleared
     IN ClientBecomes([closed EXCEPT !.token = null, !.connected = FALSE,
                                     !.user = null])
  /\ UNCHANGED <<now, gatewayFrame>>

\* the times at which a pending timer of the client fires
ClientDeadlines ==
  {intervals[id].next : id \in DOMAIN intervals} \cup BagToSet(reconnectTimers)

\* The clock moves to the next timer due; no timer is skipped.
gatewayClock ==
  /\ ~exited
  /\ now < GatewayHorizon
  /\ ClientDeadlines # {}
  /\ \A d \in ClientDeadlines : d > now
  /\ now' = CHOOSE d \in ClientDeadlines : \A e \in ClientDeadlines : d <= e
  /\ UNCHANGED <<gatewayFrame, gatewayVars>>

\* new Client(options), before login
InitClient ==
  /\ token = null
  /\ connected = FALSE
  /\ user = null
  /\ sequence = NoSequence
  /\ sequenceFrom = 0
  /\ sessionId = 0
  /\ heartbeatInterval = 0
  /\ ws = 0
  /\ wsStats = [ping |-> 0, lastHeartbeatAck |-> 0, lastHeartbeatSent |-> 0]
  /\ sockets = <<>>
  /\ intervals = <<>>
  /\ intervalsSet = 0
  /\ reconnectTimers = EmptyBag
  /\ discovery = EmptyBag
  /\ loginPromise = "none"
  /\ emitted = {}
  /\ frames = <<>>
  /\ destroyed = FALSE
  /\ exited = FALSE

\* Nothing happens once the process has ended (every action has ~exited).
NextGateway ==
  \/ \E t \in TokenChoices : login(t)
  \/ \E origin \in BagToSet(discovery) : discoveryOk(origin)
  \/ \E origin \in BagToSet(discovery) : discoveryFail(origin)
  \/ \E k \in DOMAIN sockets : wsOpen(k)
  \/ \E k \in DOMAIN sockets, data \in Inbound, fatal \in BOOLEAN :
       wsMessage(k, data, fatal)
  \/ \E k \in DOMAIN sockets, code \in CloseCodes : wsClose(k, code)
  \/ \E id \in DOMAIN intervals, fatal \in BOOLEAN : heartbeatFire(id, fatal)
  \/ \E at \in BagToSet(reconnectTimers) : reconnectFire(at)
  \/ clientDestroy
  \/ gatewayClock

\* ------------------------------------------------------ route normalization
\* The two functions that turn a request path into the key of a route, applied to
\* pairs of paths: the first line of throttle() and _getAPIRoute (for a GET without
\* query parameters).

\* the pieces a path is made of: "/", a run of letters, a run of digits
PathPieces == {"/", "x"} \cup DigitRuns

\* The paths of at most MaxPathPieces pieces that start with "/"; neighbouring pieces
\* are not two runs of digits nor two runs of letters (the runs are maximal).
RoutePaths ==
  {p \in UNION {[1..n -> PathPieces] : n \in 1..MaxPathPieces} :
     /\ p[1] = "/"
     /\ \A i \in 1..(Len(p) - 1) :
          /\ ~(p[i] \in DigitRuns /\ p[i + 1] \in DigitRuns)
          /\ ~(p[i] = "x" /\ p[i + 1] = "x")}

\* const formattedRoute = route.replace(/\d+/g, ':id'), for the two paths
formatRoutes ==
  /\ formattedRoutes = <<>>
  /\ formattedRoutes' = <<FormatRoute(paths[1]), FormatRoute(paths[2])>>
  /\ UNCHANGED <<now, paths, apiRoutes, cacheVars, restVars, throttleVars, gatewayVars,
                 sendThrowsAfterClose, trackerVars>>

\* this._getAPIRoute(config), for the two paths
getAPIRoutes ==
  /\ apiRoutes = <<>>
  /\ apiRoutes' = <<getAPIRoute("GET", paths[1]), getAPIRoute("GET", paths[2])>>
  /\ UNCHANGED <<now, paths, formattedRoutes, cacheVars, restVars, throttleVars,
                 gatewayVars, sendThrowsAfterClose, trackerVars>>

InitRoutes ==
  /\ paths \in RoutePaths \X RoutePaths
  /\ formattedRoutes = <<>>
  /\ apiRoutes = <<>>

NextRoute ==
  \/ formatRoutes
  \/ getAPIRoutes

\* ------------------------------------------------------------ EventTracker
\* subscribe, the unsubscribe functions it returns, and trackEvent with
\* _notifySubscribers, for a tracker that is enabled, ignores no event and samples
\* every event (the defaults).  The patterns are strings; an event name and a
\* pattern are kept as their pieces between the ':' separators.  The stored events
\* and the statistics of _recordEvent, which no subscription reads, are not kept.

SubscribePatterns == {<<"a">>, <<"a", "b">>}
EventNames == {<<"a">>, <<"a", "b">>, <<"b">>}
Callbacks == {"f", "g"}

NoNotification == [event |-> <<>>, invoked |-> [cb \in Callbacks |-> 0]]

\* eventData.eventName === pattern || eventData.eventName.startsWith(`${pattern}:`)
Matches(pattern, eventName) ==
  \/ eventName = pattern
  \/ Len(eventName) > Len(pattern) /\ SubSeq(eventName, 1, Len(pattern)) = pattern

\* subscribers.findIndex(sub => sub.callback === callback); 0 stands for -1
findIndex(subs, callback) ==
  IF \E i \in 1..Len(subs) : subs[i].callback = callback
    THEN CHOOSE i \in 1..Len(subs) :
           /\ subs[i].callback = callback
           /\ \A j \in 1..(i - 1) : subs[j].callback # callback
    ELSE 0

\* subscribers.splice(index, 1)
splice(subs, index) == SubSeq(subs, 1, index - 1) \o SubSeq(subs, index + 1, Len(subs))

\* subscribe(pattern, callback): returns the unsubscribe function handles[Len(handles)']
subscribe(pattern, callback) ==
  /\ Len(handles) < MaxSubscribes
  /\ LET patternKey == pattern
         array == IF patternKey \in DOMAIN subscribers THEN subscribers[patternKey]
                  ELSE Len(arrays) + 1
         sub == [pattern |-> pattern, callback |-> callback]
     IN /\ subscribers' = FnSet(subscribers, patternKey, array)
        /\ arrays' = IF patternKey \in DOMAIN subscribers
                       THEN [arrays EXCEPT ![array] = Append(@, sub)]
                       ELSE Append(arrays, <<sub>>)
        /\ handles' = Append(handles, [patternKey |-> patternKey, callback |-> callback,
                                       subscribers |-> array, calls |-> 0])
  /\ notified' = NoNotification
  /\ UNCHANGED <<now, cacheVars, restVars, throttleVars, gatewayVars,
                 sendThrowsAfterClose, routeVars>>

\* the unsubscribe function h is called: the closure works on the array it captured
\* and deletes its patternKey from the Map when that array is empty
unsubscribe(h) ==
  /\ handles[h].calls < MaxHandleCalls
  /\ LET array == handles[h].subscribers
         index == findIndex(arrays[array], handles[h].callback)
         left == IF index # 0 THEN splice(arrays[array], index) ELSE arrays[array]
     IN /\ arrays' = [arrays EXCEPT ![array] = left]
        /\ subscribers' = IF left = <<>> THEN FnDelete(subscribers, handles[h].patternKey)
                          ELSE subscribers
  /\ handles' = [handles EXCEPT ![h].calls = @ + 1]
  /\ notified' = NoNotification
  /\ UNCHANGED <<now, cacheVars, restVars, throttleVars, gatewayVars,
                 sendThrowsAfterClose, routeVars>>

\* _notifySubscribers(eventData): how often each callback is invoked
notifySubscribers(eventName) ==
  [cb \in Callbacks |->
     Cardinality({<<key, i>> \in (DOMAIN subscribers) \X (1..MaxSubscribes) :
                    /\ i <= Len(arrays[subscribers[key]])
                    /\ arrays[subscribers[key]][i].callback = cb
                    /\ Matches(arrays[subscribers[key]][i].pattern, eventName)})]

\* trackEvent(eventName, category, metadata)
trackEvent(eventName) ==
  /\ handles # <<>>
  /\ notified' = [event |-> eventName, invoked |-> notifySubscribers(eventName)]
  /\ UNCHANGED <<now, cacheVars, restVars, throttleVars, gatewayVars,
                 sendThrowsAfterClose, routeVars, subscribers, arrays, handles>>

\* new EventTracker()
InitTracker ==
  /\ subscribers = <<>>
  /\ arrays = <<>>
  /\ handles = <<>>
  /\ notified = NoNotification

TrackerUnused == InitTracker

NextTracker ==
  \/ \E pattern \in SubscribePatterns, callback \in Callbacks : subscribe(pattern, callback)
  \/ \E h \in 1..Len(handles) : unsubscribe(h)
  \/ \E eventName \in EventNames : trackEvent(eventName)

\* the components a specification leaves alone
RouteUnused ==
  /\ paths = <<<<"/">>, <<"/">>>>
  /\ formattedRoutes = <<>>
  /\ apiRoutes = <<>>

CacheUnused ==
  /\ maxSize = [s \in Stores |-> MaxSizeBound]
  /\ lifetime = [s \in Stores |-> 0]
  /\ sweepInterval = 0
  /\ collection = [s \in Stores |-> <<>>]
  /\ expirations = [s \in Stores |-> <<>>]
  /\ sweepTimer = NoTimer
  /\ lastSweep = NoTimer
  /\ lastEvicted = null
  /\ swept = NoCounts

RestUnused ==
  /\ retryLimit = 1
  /\ rateLimits = <<>>
  /\ calls = [c \in CallIds |-> NewCall]
  /\ blockedUntil = <<>>

ThrottleUnused ==
  /\ relativeClock = FALSE
  /\ maxRequestsPerMinute = MaxRequestsDefault
  /\ throttleRetryAfter = ThrottleRetryAfterDefault
  /\ bufferSize = BufferSizeDefault
  /\ InitManager

GatewayUnused ==
  /\ sendThrowsAfterClose = FALSE
  /\ InitClient

InitC ==
  /\ now = 0 /\ InitCache /\ RestUnused /\ ThrottleUnused /\ GatewayUnused /\ RouteUnused
  /\ TrackerUnused

SpecCache == InitC /\ [][NextCache]_vars

InitR ==
  /\ now = 0 /\ InitRest /\ CacheUnused /\ ThrottleUnused /\ GatewayUnused /\ RouteUnused
  /\ TrackerUnused

SpecRest == InitR /\ [][NextRest]_vars

InitT ==
  /\ now = 0
  /\ relativeClock = FALSE
  /\ InitThrottle
  /\ CacheUnused
  /\ RestUnused
  /\ GatewayUnused
  /\ RouteUnused
  /\ TrackerUnused

SpecThrottle == InitT /\ [][NextThrottle]_vars

SpecThrottleReset == InitT /\ [][NextThrottleReset]_vars

\* The manager in unbounded runs, in the relative representation: the caller goes on
\* submitting, timers fire when due, the clock advances and every callback started
\* ends (the event loop runs every timer due and every continuation of a settled
\* await).  The submissions are under no fairness condition.
InitLive ==
  /\ now = 0
  /\ relativeClock = TRUE
  /\ InitThrottle
  /\ maxRequestsPerMinute = 1
  /\ CacheUnused
  /\ RestUnused
  /\ GatewayUnused
  /\ RouteUnused
  /\ TrackerUnused

SpecThrottleLive ==
  /\ InitLive
  /\ [][NextThrottleLive]_vars
  /\ WF_vars(callbackEnds)
  /\ WF_vars(\E timer \in BagToSet(drainTimers) : drainFire(timer))
  /\ WF_vars(\E route \in DOMAIN limitTimers : limitFire(route))
  /\ WF_vars(throttleClock)

InitG ==
  /\ now = 0
  /\ sendThrowsAfterClose \in BOOLEAN
  /\ InitClient
  /\ CacheUnused
  /\ RestUnused
  /\ ThrottleUnused
  /\ RouteUnused
  /\ TrackerUnused

SpecGateway == InitG /\ [][NextGateway]_vars

InitRoute ==
  /\ now = 0
  /\ InitRoutes
  /\ CacheUnused
  /\ RestUnused
  /\ ThrottleUnused
  /\ GatewayUnused
  /\ TrackerUnused

SpecRoute == InitRoute /\ [][NextRoute]_vars

InitEvents ==
  /\ now = 0
  /\ InitTracker
  /\ CacheUnused
  /\ RestUnused
  /\ ThrottleUnused
  /\ GatewayUnused
  /\ RouteUnused

SpecTracker == InitEvents /\ [][NextTracker]_vars

\* ===================================================================== claims

\* ---- CacheManager (SpecCache)

\* C1: in each of the five stores the number of entries never exceeds the store's
\* maxSize, for every configured maxSize >= 0, at every observation point, with or
\* without the sweep timer.
C1_CountWithinMaxSize ==
  \A s \in Stores : Len(collection[s]) <= maxSize[s]

\* C5: with lifetime > 0, an entry whose expiration time (the time it was last added
\* plus the lifetime) is at or before the time of a sweep that has run since is
\* absent from get.
C5_ExpiredAbsentAfterSweep ==
  \A s \in Stores, id \in Ids :
    ( /\ lifetime[s] > 0
      /\ MapHas(expirations[s], id)
      /\ lastSweep >= MapGet(expirations[s], id) )
    => getReturn(s, id) = null

\* The entries add may evict according to the claim: one with the earliest recorded
\* expiration, or the earliest-inserted one when no entry carries an expiration.
C10_Oldest(s) ==
  IF expirations[s] = <<>>
    THEN {collection[s][1].k}
    ELSE {expirations[s][i].k : i \in {j \in 1..Len(expirations[s]) :
            \A h \in 1..Len(expirations[s]) : expirations[s][j].v <= expirations[s][h].v}}

\* A step of add(s, id, data); the first conjuncts, which add implies, only spare
\* the evaluation of add on the steps of other calls.
C10_AddStep(s, id, data) ==
  /\ now' = now
  /\ lastSweep' = lastSweep
  /\ MapHas(collection'[s], id)
  /\ add(s, id, data)

\* C10: add on a full store evicts exactly one entry before the insert, the one with
\* the earliest expiration (the earliest-inserted one when there are no expirations);
\* get leaves the next eviction unchanged; with maxSize = 2 and no lifetime, adding
\* a, b, c in order leaves exactly b, c.
C10_EvictOldestOnFullAdd ==
  [][ /\ \A s \in Stores, id \in Ids, data \in Data :
          ( /\ collection[s] # <<>>
            /\ Len(collection[s]) >= maxSize[s]
            /\ C10_AddStep(s, id, data) )
          => /\ lastEvicted' \in C10_Oldest(s)
             /\ collection'[s] = MapSet(MapDelete(collection[s], lastEvicted'), id, data)
             /\ Len(collection'[s]) <= Len(collection[s])
      /\ \A s \in Stores, id \in Ids :
          get(s, id) =>
            getOldestEntry(collection'[s], expirations'[s])
              = getOldestEntry(collection[s], expirations[s])
      /\ \A s \in Stores, data \in Data :
          (maxSize[s] = 2 /\ lifetime[s] = 0) =>
            /\ (collection[s] = <<>> /\ C10_AddStep(s, "a", data))
                  => MapKeys(collection'[s]) = <<"a">>
            /\ (MapKeys(collection[s]) = <<"a">> /\ C10_AddStep(s, "b", data))
                  => MapKeys(collection'[s]) = <<"a", "b">>
            /\ (MapKeys(collection[s]) = <<"a", "b">> /\ C10_AddStep(s, "c", data))
                  => MapKeys(collection'[s]) = <<"b", "c">> /\ lastEvicted' = "a"
    ]_vars

\* C10 witness: a full store without lifetime has evicted its earliest-inserted entry
\* a and now holds exactly b, c.
C10_Witness ==
  \E s \in Stores :
    /\ maxSize[s] = 2
    /\ lifetime[s] = 0
    /\ lastEvicted = "a"
    /\ MapKeys(collection[s]) = <<"b", "c">>

\* C21: destroy() leaves the five stores and the five expiration maps empty and the
\* sweep timer cancelled; a cancelled timer is never armed again, so the timer
\* invokes sweep() no more.
C21_DestroyClearsAndCancels ==
  /\ [][ destroy =>
           /\ \A s \in Stores : collection'[s] = <<>> /\ expirations'[s] = <<>>
           /\ sweepTimer' = NoTimer
       ]_vars
  /\ [][ sweepTimer = NoTimer => sweepTimer' = NoTimer /\ ~sweepTick ]_vars

\* C21 witness: a manager with a sweep timer of 1 ms was destroyed before the timer
\* first fired; at time 2 the timer is cancelled, no sweep has run at the times it
\* was due, and the stores are empty.
C21_Witness ==
  /\ sweepInterval = 1
  /\ sweepTimer = NoTimer
  /\ lastSweep = NoTimer
  /\ now = 2
  /\ \A s \in Stores : collection[s] = <<>> /\ expirations[s] = <<>>

\* The entries of store s whose expiration time has passed: now is later than it.
C22_Expired(s) ==
  {id \in Ids : /\ lifetime[s] > 0
                /\ MapHas(expirations[s], id)
                /\ now > MapGet(expirations[s], id)}

\* C22: a sweep(), called directly or by the timer, removes from every store with
\* lifetime > 0 exactly the entries whose expiration time has passed, leaves every
\* other entry and its expiration as they were (all entries of a store with
\* lifetime = 0 among them), and returns for each store the number of entries this
\* call removed from it.
C22_SweepRemovesExactlyExpired ==
  [][ (sweep \/ sweepTick) =>
        \A s \in Stores :
          /\ \A id \in Ids :
                /\ MapHas(collection'[s], id)
                     <=> (MapHas(collection[s], id) /\ id \notin C22_Expired(s))
                /\ MapHas(expirations'[s], id)
                     <=> (MapHas(expirations[s], id) /\ id \notin C22_Expired(s))
                /\ MapHas(collection'[s], id)
                     => MapGet(collection'[s], id) = MapGet(collection[s], id)
                /\ MapHas(expirations'[s], id)
                     => MapGet(expirations'[s], id) = MapGet(expirations[s], id)
          /\ lifetime[s] = 0 => collection'[s] = collection[s]
          /\ swept'[s] = Len(collection[s]) - Len(collection'[s])
    ]_vars

\* C22 witness: with lifetime 1, the sweep just made at time 2 returned 1 for a store:
\* it removed the entry that expired at time 1 and kept b, which expires at time 2.
C22_Witness ==
  \E s \in Stores :
    /\ lifetime[s] = 1
    /\ now = 2
    /\ swept[s] = 1
    /\ MapKeys(collection[s]) = <<"b">>
    /\ expirations[s] = <<[k |-> "b", v |-> 2]>>

\* the ids of a Map, as a set
C33_Ids(m) == {m[i].k : i \in 1..Len(m)}

\* C33: in every store the ids with an expiration record are ids of the store; they
\* are all the ids of the store when the lifetime is > 0, and there are none when
\* the lifetime is 0.
C33_ExpirationsMatchStore ==
  \A s \in Stores :
    /\ C33_Ids(expirations[s]) \subseteq C33_Ids(collection[s])
    /\ lifetime[s] > 0 => C33_Ids(expirations[s]) = C33_Ids(collection[s])
    /\ lifetime[s] = 0 => expirations[s] = <<>>

\* C33 witness: a store with a lifetime is full, and the add just made evicted an
\* entry together with its expiration record and recorded the new one.
C33_Witness ==
  \E s \in Stores :
    /\ lifetime[s] > 0
    /\ lastEvicted # null
    /\ Len(collection[s]) = 2
    /\ ~MapHas(collection[s], lastEvicted)
    /\ C33_Ids(expirations[s]) = C33_Ids(collection[s])


\* C34: in a store with maxSize >= 1, getX(id) right after addX(id, data) returns
\* data; removeX(id) returns true exactly when getX(id) found the id, and after it
\* getX(id) returns null; an id getX does not find stays so over every step that is
\* not an addX of that id.  (The values are objects, as the methods document: getX
\* returns collection.get(id) || null.)
C34_ReadYourWrite ==
  /\ [](\A s \in Stores, id \in Ids : removeReturn(s, id) <=> getReturn(s, id) # null)
  /\ [][ \A s \in Stores, id \in Ids :
           /\ \A data \in Data :
                add(s, id, data) /\ maxSize[s] >= 1 => getReturn(s, id)' = data
           /\ remove(s, id) => getReturn(s, id)' = null
           /\ getReturn(s, id) = null /\ ~(\E data \in Data : add(s, id, data))
                => getReturn(s, id)' = null
       ]_vars

\* C34 witness: the add just made found the store full, evicted the very id it was
\* inserting (its record was the oldest), and the id is in the store with a value.
C34_Witness ==
  \E s \in Stores :
    /\ maxSize[s] >= 1
    /\ lastEvicted # null
    /\ MapHas(collection[s], lastEvicted)
    /\ getReturn(s, lastEvicted) \in Data


\* C35: an addX of an id that is already in the store keeps every other entry of the
\* store and does not lower the number of entries.
C35_ReAddKeepsOthers ==
  [][ \A s \in Stores, id \in Ids, data \in Data :
        add(s, id, data) /\ MapHas(collection[s], id) =>
          /\ \A other \in Ids \ {id} :
               MapHas(collection[s], other) =>
                 /\ MapHas(collection'[s], other)
                 /\ MapGet(collection'[s], other) = MapGet(collection[s], other)
          /\ Len(collection'[s]) >= Len(collection[s])
    ]_vars


\* ---- RESTManager (SpecRest)

\* C2: once a processed response has reported remaining = 0 with a reset time in the
\* future for a route, no call sends a request on that route before that reset time
\* plus restTimeOffset.
C2_NoSendBeforeReset ==
  [][ \A c \in CallIds :
        calls'[c].sends > calls[c].sends =>
          LET route == BucketOf(calls'[c])
          IN route \in DOMAIN blockedUntil => now >= blockedUntil[route]
    ]_vars

\* C6: whatever the mix of 429, 5xx and network failures, a call sends at most
\* retryLimit + 1 requests.
C6_SendsWithinBudget ==
  \A c \in CallIds : calls[c].sends <= retryLimit + 1

\* The error a call rejects with on a 401 / 403 / 404, according to the claim.
C7_Error(status) ==
  CASE status = 401 -> "UNAUTHORIZED"
    [] status = 403 -> "FORBIDDEN"
    [] status = 404 -> "NOT_FOUND"

\* C7: a response with status 401, 403 or 404 rejects the call with UNAUTHORIZED,
\* FORBIDDEN or NOT_FOUND, whatever retryLimit and the retry count are, and a
\* rejected call sends nothing more.
C7_ClientErrorsNotRetried ==
  [][ \A c \in CallIds :
        /\ (calls[c].pc = "inflight" /\ calls'[c] # calls[c]) =>
             \A st \in {401, 403, 404}, h \in RateHeaders :
               handleResponse(c, st, h, NoHeader, "d1", BackoffBase) =>
                 /\ calls'[c].pc = "rejected"
                 /\ calls'[c].result = C7_Error(st)
                 /\ calls'[c].sends = calls[c].sends
        /\ calls[c].pc = "rejected" => calls'[c] = calls[c]
    ]_vars

\* C7 witness: a call has been rejected with FORBIDDEN after a single request, with
\* retries left in its budget.
C7_Witness ==
  \E c \in CallIds :
    /\ calls[c].pc = "rejected"
    /\ calls[c].result = "FORBIDDEN"
    /\ calls[c].sends = 1
    /\ calls[c].retryCount < retryLimit

\* C8: a call whose every attempt ended in a server error (5xx) or without a
\* response is rejected only after retryLimit + 1 requests.
C8_TransientRetriedToLimit ==
  \A c \in CallIds :
    (calls[c].pc = "rejected" /\ calls[c].allTransient) =>
      calls[c].sends = retryLimit + 1

\* The wait the claim requires after a 429: n * 1000 ms for retry-after: n, 1000 ms
\* without the header.
C9_Wait(retryAfter) == IF retryAfter = NoHeader THEN 1000 ELSE retryAfter * 1000

\* C9: after a 429, the request is sent again no earlier than the retry-after wait
\* after the 429 was received, and when that next attempt gets a 2xx response the
\* call resolves with the data of that response, after exactly one retry.
C9_RetryAfter429 ==
  [][ \A c \in CallIds :
        calls[c].last429 # No429 =>
          /\ calls'[c].sends > calls[c].sends =>
               /\ now >= calls[c].last429.at + C9_Wait(calls[c].last429.retryAfter)
               /\ calls'[c].sends = calls[c].last429.sends + 1
          /\ (calls[c].pc = "inflight" /\ calls'[c] # calls[c]) =>
               \A data \in Data, h \in RateHeaders :
                 handleResponse(c, 200, h, NoHeader, data, BackoffBase) =>
                   /\ calls'[c].pc = "resolved"
                   /\ calls'[c].result = data
                   /\ calls'[c].sends = calls[c].last429.sends + 1
    ]_vars

\* C9 witness: alone, a call has resolved with the data of the response to its one
\* retry, which followed a 429 with retry-after: 2 received at time 0.
C9_Witness ==
  /\ calls["c1"].pc = "resolved"
  /\ calls["c1"].result = "d2"
  /\ calls["c1"].sends = 2
  /\ calls["c1"].retryCount = 0
  /\ calls["c2"].pc = "idle"
  /\ now = 2000

\* C26: a response with any status in 500..599 is a retryable server error: while the
\* retry count is below retryLimit the call waits the backoff and sends the request
\* again with the count raised by one, and it rejects only when the count has
\* reached retryLimit.
C26_Every5xxRetried ==
  [][ \A c \in CallIds :
        (calls[c].pc = "inflight" /\ calls'[c] # calls[c]) =>
          \A st \in {s \in Statuses : s >= 500 /\ s <= 599}, h \in RateHeaders,
             backoff \in BackoffChoices :
            handleResponse(c, st, h, NoHeader, "d1", backoff) =>
              IF calls[c].retryCount < retryLimit
                THEN /\ calls'[c].pc = "sleeping"
                     /\ calls'[c].wakeAt = now + backoff
                     /\ calls'[c].retryCount = calls[c].retryCount + 1
                ELSE calls'[c].pc = "rejected"
    ]_vars


\* ---- ThrottlingManager (SpecThrottle)

\* C3: when an operation is started from a route's queue, no operation placed in
\* that queue before it (one with a smaller ticket) is still waiting there: the
\* operations of a route's queue start in the order they were placed in it.
C3_FifoPerRoute ==
  [][ \A route \in DOMAIN queue : \A i \in 1..Len(queue[route]) :
        ops'[queue[route][i].op].starts > ops[queue[route][i].op].starts =>
          \A j \in 1..Len(queue[route]) :
            queue[route][i].ticket <= queue[route][j].ticket
    ]_vars

\* C3 witness: o2 and o3 were placed in the queue of one route in this order, o2 has
\* been started from it and o3 is still waiting.
C3_Witness ==
  \E route \in DOMAIN queue :
    /\ queue[route] = <<[op |-> "o3", ticket |-> 2]>>
    /\ ops["o2"].route = route
    /\ ops["o2"].ticket = 1
    /\ ops["o2"].starts = 1
    /\ ops["o3"].starts = 0

\* The starts recorded for the route in the last 60000 ms.
C4_RecentStarts(route) ==
  IF route \in DOMAIN requestLog
    THEN Cardinality({i \in 1..Len(requestLog[route]) :
                        requestLog[route][i] > now - 60000})
    ELSE 0

\* The route is not marked rate-limited and its recent starts are strictly fewer
\* than maxRequestsPerMinute * bufferSize.
C4_Admissible(route) ==
  /\ ~(route \in DOMAIN rateLimit /\ rateLimit[route])
  /\ C4_RecentStarts(route) * bufferSize.den < maxRequestsPerMinute * bufferSize.num

\* The three operations were submitted at time 0 on one route, before any callback
\* had ended, to a manager with maxRequestsPerMinute = 2 and bufferSize = 1.
C4_Scenario ==
  /\ maxRequestsPerMinute = 2
  /\ bufferSize = [num |-> 1, den |-> 1]
  /\ \A o \in OpIds : ops[o].burst /\ ops[o].route = ops["o1"].route

\* C4: throttle() starts the operation at submission exactly when the route is not
\* marked rate-limited and has fewer recent starts than maxRequestsPerMinute *
\* bufferSize; otherwise it appends the operation to the route's queue without
\* starting it.  With maxRequestsPerMinute = 2 and bufferSize = 1, of three
\* operations submitted at the same instant the first two have started and the
\* third starts no earlier than 60000 ms later.
C4_AdmissionAtSubmission ==
  /\ [][ \A o \in OpIds :
           (ops[o].state = "new" /\ ops'[o].state # "new") =>
             LET route == ops'[o].route
                 q == IF route \in DOMAIN queue THEN queue[route] ELSE <<>>
             IN IF C4_Admissible(route)
                  THEN /\ ops'[o].starts = 1
                       /\ ops'[o].inflight = 1
                       /\ queue' = queue
                  ELSE /\ ops'[o].starts = 0
                       /\ ops'[o].inflight = 0
                       /\ queue'[route] = Append(q, [op |-> o, ticket |-> nextTicket])
       ]_vars
  /\ [](C4_Scenario =>
          /\ ops["o1"].starts >= 1
          /\ ops["o2"].starts >= 1
          /\ ops["o3"].starts >= 1 => now >= 60000)

\* C4 witness: in the scenario, the third operation was queued at submission and has
\* been started at time 60000.
C4_Witness ==
  /\ C4_Scenario
  /\ ops["o3"].ticket = 1
  /\ ops["o3"].starts = 1
  /\ now = 60000

\* the queue of the route, empty when the route has none
C11_Queue(route) == IF route \in DOMAIN queue THEN queue[route] ELSE <<>>

\* C11: when an execution of an operation ends with a rate-limit signal (status
\* 429), the route is marked limited and the operation is put back at the front of
\* the route's queue, ahead of every operation that was waiting there, so that it is
\* executed again before them.
C11_RequeuedAtFront ==
  [][ \A o \in OpIds, hint \in RetryAfterHints :
        complete(o, "limited", hint) =>
          /\ ops[o].route \in DOMAIN rateLimit' /\ rateLimit'[ops[o].route]
          /\ queue'[ops[o].route] =
               <<[op |-> o, ticket |-> nextTicket]>> \o C11_Queue(ops[o].route)
    ]_vars

\* C13: when an execution of an operation ends with an error that is not a
\* rate-limit signal, the promise throttle() returned rejects with that error, the
\* route's queue, limited flag and limit timer are left as they were, and the
\* operation is neither put in a queue nor executed again.
C13_OtherErrorsReject ==
  /\ [][ \A o \in OpIds :
           complete(o, "error", 0) =>
             /\ ops'[o].state = "rejected"
             /\ ops'[o].result = "error"
             /\ ops'[o].starts = ops[o].starts
             /\ queue' = queue
             /\ rateLimit' = rateLimit
             /\ limitTimers' = limitTimers
             /\ drainTimers' = drainTimers
       ]_vars
  /\ [][ \A o \in OpIds : ops[o].state = "rejected" => ops'[o] = ops[o] ]_vars
  /\ [](\A o \in OpIds :
          ops[o].state = "rejected" =>
            /\ ops[o].inflight = 0
            /\ \A route \in DOMAIN queue :
                 \A i \in 1..Len(queue[route]) : queue[route][i].op # o)

\* C13 witness: o1 was rejected after one execution on a route that is marked
\* limited and on which o2 is waiting.
C13_Witness ==
  /\ ops["o1"].state = "rejected"
  /\ ops["o1"].result = "error"
  /\ ops["o1"].starts = 1
  /\ ops["o2"].route = ops["o1"].route
  /\ ops["o2"].state = "pending"
  /\ ops["o1"].route \in DOMAIN queue
  /\ \E i \in 1..Len(queue[ops["o1"].route]) : queue[ops["o1"].route][i].op = "o2"
  /\ ops["o1"].route \in DOMAIN rateLimit /\ rateLimit[ops["o1"].route]

\* C12: every operation placed in a route's queue is eventually started (taken from
\* the queue and executed), whatever the submissions, the 429 failures and the order
\* of the timer firings, given that timers fire, the clock advances and every
\* callback started ends; reset() is not called.
C12_QueuedEventuallyStarted ==
  \A o \in OpIds : Queued(o) ~> ~Queued(o)

\* C23: on each route, the operations _processQueue takes from the queue and starts
\* are at least the drain cadence (1000 ms) apart: of two operations of a route that
\* were both started from the queue, neither started less than 1000 ms after the
\* other.
C23_DrainedStartsApart ==
  \A o \in OpIds, p \in OpIds :
    ( /\ o # p
      /\ ops[o].route = ops[p].route
      /\ ops[o].drained # NoTimer
      /\ ops[p].drained # NoTimer
      /\ ops[o].drained <= ops[p].drained )
    => ops[p].drained - ops[o].drained >= DrainCadence

\* C24: getStats() changes no state of the manager (request log, queues, limited
\* flags, timers, counters), and the object it returns carries the counters as they
\* are, maps in activeQueues each route that has a queue to the current length of
\* that queue, and lists in activeLimits exactly the routes currently marked limited.
C24_GetStatsReadOnlyAccurate ==
  [][ statsReturned' # <<>> =>
        /\ UNCHANGED <<requestLog, queue, rateLimit, limitTimers, drainTimers, stats,
                       ops, nextTicket, now>>
        /\ LET r == statsReturned'[1]
           IN /\ DOMAIN r.activeQueues = DOMAIN queue
              /\ \A route \in DOMAIN queue : r.activeQueues[route] = Len(queue[route])
              /\ \A route \in {FormatRoute(raw) : raw \in RawRoutes} :
                   route \in r.activeLimits
                     <=> (route \in DOMAIN rateLimit /\ rateLimit[route] = TRUE)
              /\ r.totalRequests = stats.totalRequests
              /\ r.throttledRequests = stats.throttledRequests
              /\ r.succeededRequests = stats.succeededRequests
              /\ r.failedRequests = stats.failedRequests
              /\ r.lastRequest = stats.lastRequest
    ]_vars

\* C24 witness: getStats() has just returned on a manager with one route limited and
\* two operations waiting on it, and with another route whose limit has expired:
\* activeLimits names the first route only.
C24_Witness ==
  /\ statsReturned # <<>>
  /\ \E route \in DOMAIN queue :
       /\ statsReturned[1].activeQueues[route] = 2
       /\ statsReturned[1].activeLimits = {route}
  /\ \E route \in DOMAIN rateLimit : ~rateLimit[route]

\* C28: whatever the number of executions an operation has had, an execution that
\* fails with status 429 leaves its promise pending and the operation waiting in the
\* queue of its route, from where it is started again like any queued operation; no
\* promise is ever settled by a 429.
C28_RequeuedWithoutCap ==
  /\ [][ \A o \in OpIds, hint \in RetryAfterHints :
           complete(o, "limited", hint) =>
             /\ ops'[o].state = "pending"
             /\ ops'[o].result = null
             /\ ops'[o].starts = ops[o].starts
             /\ ops[o].route \in DOMAIN queue'
             /\ \E i \in 1..Len(queue'[ops[o].route]) : queue'[ops[o].route][i].op = o
       ]_vars
  /\ [](\A o \in OpIds :
          ops[o].state \in {"resolved", "rejected"} => ops[o].result # "limited")

\* C28 witness: an operation submitted alone is in its third execution, still
\* pending: each of its executions so far has failed with status 429 (any other
\* outcome would have settled it).
C28_Witness ==
  /\ ops["o1"].starts = 3
  /\ ops["o1"].inflight = 1
  /\ ops["o1"].state = "pending"
  /\ \A o \in OpIds \ {"o1"} : ops[o].state = "new"
  /\ stats.failedRequests = 2


\* the normalized routes of the model
C29_Routes == {FormatRoute(raw) : raw \in RawRoutes}

\* the entry of the route in a Map of the manager, if it has one
C29_Entry(map, route) == IF route \in DOMAIN map THEN <<map[route]>> ELSE <<>>

\* the pending drain timers of the route, each with the number of its copies
C29_Drains(timers, route) ==
  {<<timer, CopiesIn(timer, timers)>> : timer \in {d \in BagToSet(timers) : d.route = route}}

\* The step leaves the request log, the queue, the limited flag, the limit timer and
\* the drain timers of every route but the given one as they are.
C29_OthersUntouched(route) ==
  \A other \in C29_Routes \ {route} :
    /\ C29_Entry(requestLog', other) = C29_Entry(requestLog, other)
    /\ C29_Entry(queue', other) = C29_Entry(queue, other)
    /\ C29_Entry(rateLimit', other) = C29_Entry(rateLimit, other)
    /\ C29_Entry(limitTimers', other) = C29_Entry(limitTimers, other)
    /\ C29_Drains(drainTimers', other) = C29_Drains(drainTimers, other)

\* in the last 60000 ms the route has had fewer starts than maxRequestsPerMinute *
\* bufferSize, and it is not marked limited
C29_Free(route) ==
  /\ ~(route \in DOMAIN rateLimit /\ rateLimit[route])
  /\ \/ route \notin DOMAIN requestLog
     \/ Cardinality({i \in 1..Len(requestLog[route]) :
                       requestLog[route][i] > now - WindowMs}) * bufferSize.den
          < maxRequestsPerMinute * bufferSize.num

\* C29: an operation submitted on a route that is not limited and whose window is not
\* full is started at submission, without a queue entry or a timer, whatever the
\* limited flags, windows and queues of the other routes; and a submission, the end
\* of an execution, a drain timer and a limit timer of one route leave the request
\* log, queue, limited flag and timers of every other route unchanged.
C29_RoutesIndependent ==
  /\ [][ \A o \in OpIds, raw \in RawRoutes :
           throttle(o, raw) =>
             /\ C29_OthersUntouched(FormatRoute(raw))
             /\ C29_Free(FormatRoute(raw)) =>
                  /\ ops'[o].starts = 1
                  /\ ops'[o].ticket = 0
                  /\ queue' = queue
                  /\ drainTimers' = drainTimers
       ]_vars
  /\ [][ \A o \in OpIds, outcome \in Outcomes, hint \in RetryAfterHints :
           complete(o, outcome, hint) => C29_OthersUntouched(ops[o].route)
       ]_vars
  /\ [][ \A timer \in BagToSet(drainTimers) :
           drainFire(timer) => C29_OthersUntouched(timer.route)
       ]_vars
  /\ [][ \A route \in DOMAIN limitTimers :
           limitFire(route) => C29_OthersUntouched(route)
       ]_vars

\* C29 witness: with maxRequestsPerMinute = 1, one route is limited, its window is
\* full and two operations wait in its queue; the operation just submitted on the
\* other route has been started at once, at the same instant.
C29_Witness ==
  \E route \in DOMAIN queue :
    /\ maxRequestsPerMinute = 1
    /\ route \in DOMAIN rateLimit /\ rateLimit[route]
    /\ Len(queue[route]) = 2
    /\ requestLog[route] = <<now>>
    /\ ops["o3"].route # route
    /\ ops["o3"].starts = 1
    /\ ops["o3"].inflight = 1
    /\ ops["o3"].ticket = 0
    /\ ops["o3"].route \in DOMAIN requestLog
    /\ requestLog[ops["o3"].route] = <<now>>


\* the executions of the operation o started in the last 60000 ms
C30_RecentStartsOf(o) ==
  Cardinality({i \in 1..Len(ops[o].startedAt) : ops[o].startedAt[i] > now - WindowMs})

RECURSIVE C30_Sum(_, _)
C30_Sum(S, route) ==
  IF S = {} THEN 0
  ELSE LET o == CHOOSE x \in S : TRUE
       IN (IF ops[o].route = route THEN C30_RecentStartsOf(o) ELSE 0)
            + C30_Sum(S \ {o}, route)

\* C30: at every instant and for every normalized route, the executions started on the
\* route in the last 60000 ms (at submission, from the queue, again after a 429) are
\* at most ceil(maxRequestsPerMinute * bufferSize): one less than their number is
\* below maxRequestsPerMinute * bufferSize.
C30_WindowBound ==
  \A route \in {FormatRoute(raw) : raw \in RawRoutes} :
    (C30_Sum(OpIds, route) - 1) * bufferSize.den < maxRequestsPerMinute * bufferSize.num


\* C30 witness: with a limit of 2, an operation started at submission at time 0 and
\* started again from the queue at 1000, after a 429, fills the window of its route;
\* a second operation of the route is waiting in the queue, not started.
C30_Witness ==
  /\ maxRequestsPerMinute = 2
  /\ bufferSize = [num |-> 1, den |-> 1]
  /\ now = 1000
  /\ ops["o1"].startedAt = <<0, 1000>>
  /\ ops["o2"].route = ops["o1"].route
  /\ ops["o2"].state = "pending"
  /\ ops["o2"].startedAt = <<>>
  /\ ops["o2"].ticket > 0


\* the queue entries that hold the operation o
C31_Entries(o) ==
  UNION {{<<route, i>> : i \in {j \in 1..Len(queue[route]) : queue[route][j].op = o}} :
           route \in DOMAIN queue}

\* C31: an operation never has two executions in flight, is never in a queue twice
\* nor in a queue while it executes (so each queue entry leads to at most one
\* execution, however many drain timers are pending), and once its promise is
\* settled it is not waiting, not in flight, never started again, and its promise
\* keeps its state and value.
C31_NoDuplicateExecution ==
  /\ [](\A o \in OpIds :
          /\ ops[o].inflight <= 1
          /\ Cardinality(C31_Entries(o)) + ops[o].inflight <= 1
          /\ ops[o].state \in {"resolved", "rejected"} =>
               ops[o].inflight = 0 /\ C31_Entries(o) = {})
  /\ [][ \A o \in OpIds :
           /\ ops'[o].starts <= ops[o].starts + 1
           /\ ops'[o].starts = ops[o].starts + 1 =>
                \/ ops[o].state = "new"
                \/ Cardinality(C31_Entries(o)) = 1
           /\ ops[o].state \in {"resolved", "rejected"} =>
                /\ ops'[o].starts = ops[o].starts
                /\ ops'[o].state = ops[o].state
                /\ ops'[o].result = ops[o].result
       ]_vars

\* C31 witness: two operations were queued, each arming a drain timer; the first was
\* started from the queue once and has resolved, and two drain timers are pending
\* for the route while the second still waits.
C31_Witness ==
  /\ ops["o2"].drained # NoTimer
  /\ ops["o2"].starts = 1
  /\ ops["o2"].state = "resolved"
  /\ ops["o3"].route = ops["o2"].route
  /\ Cardinality(C31_Entries("o3")) = 1
  /\ BagCardinality(drainTimers) >= 2
  /\ \A timer \in BagToSet(drainTimers) : timer.route = ops["o2"].route


\* a timer whose callback calls _processQueue(route) is pending
C32_DrainPending(route) ==
  \/ \E timer \in BagToSet(drainTimers) : timer.route = route
  \/ route \in DOMAIN limitTimers

\* C32: without reset(), a route whose queue is non-empty has a drain timer or its
\* limit-expiry timer pending, and a route marked limited has its expiry timer pending.
C32_NoStrandedQueue ==
  /\ \A route \in DOMAIN queue : queue[route] # <<>> => C32_DrainPending(route)
  /\ \A route \in DOMAIN rateLimit : rateLimit[route] => route \in DOMAIN limitTimers

\* C32 witness: an operation submitted to a limited route waits with no drain timer
\* armed for the route at all; only the expiry timer of the limit is pending.
C32_Witness ==
  \E route \in DOMAIN queue :
    /\ queue[route] # <<>>
    /\ \E i \in 1..Len(queue[route]) : ops[queue[route][i].op].starts = 0
    /\ route \in DOMAIN rateLimit /\ rateLimit[route]
    /\ route \in DOMAIN limitTimers
    /\ \A timer \in BagToSet(drainTimers) : timer.route # route


\* the callback executions that have resolved: each resolves the promise of its
\* operation, and no operation is executed again after that (C31)
C36_Resolved == Cardinality({o \in OpIds : ops[o].state = "resolved"})

\* the callback executions that have thrown: those started, less those in flight
\* and those resolved
C36_Thrown ==
  TotalStarts(Manager) - C36_Resolved
    - Cardinality({o \in OpIds : ops[o].inflight > 0})

\* C36: succeededRequests is at most the number of executions that have resolved,
\* failedRequests is the number of executions that have thrown, and succeededRequests
\* + failedRequests is at most totalRequests.
C36_StatsMatchOutcomes ==
  /\ stats.succeededRequests <= C36_Resolved
  /\ stats.failedRequests = C36_Thrown
  /\ stats.succeededRequests + stats.failedRequests <= stats.totalRequests


\* the manager's logs, queues, flags, timers and counters are as after construction
C37_AsConstructed ==
  /\ requestLog = <<>>
  /\ queue = <<>>
  /\ rateLimit = <<>>
  /\ limitTimers = <<>>
  /\ drainTimers = EmptyBag
  /\ stats = NewStats

\* C37: reset() leaves the logs, queues, limited flags, timers and counters as after
\* construction; they stay so over every step that is not a throttle() call; and no
\* promise of an earlier throttle() call is left without a way to settle: a pending
\* operation is executing or waiting in a queue.
C37_ResetRestoresAndStrandsNothing ==
  /\ [][reset => C37_AsConstructed']_vars
  /\ [][ C37_AsConstructed /\ ~(\E o \in OpIds, route \in LiveRoutes : throttle(o, route))
           => C37_AsConstructed' ]_vars
  /\ [](\A o \in OpIds : ops[o].state = "pending" => ops[o].inflight > 0 \/ Queued(o))


\* ---- Client (SpecGateway)

\* the HELLO packets, and the data JSON.parse rejects
C14_Hellos == {data \in Inbound : data.text = "json" /\ data.packet.op = OpHello}

\* C14: a socket close with code 1000 emits 'disconnect' and schedules no reconnect,
\* and once the latest socket has closed with 1000 no reconnect timer and no gateway
\* discovery is pending; a close with any other code schedules exactly one
\* reconnect, due 5000 ms after the close.  The reconnect starts when it is due with
\* the gateway discovery, the discovery creates a new socket which becomes the
\* client's socket, a HELLO on the client's open socket is answered with an IDENTIFY
\* on it, and every frame the client sends is an IDENTIFY or a heartbeat, never a
\* RESUME.
C14_CloseAndReconnect ==
  /\ [][ \A k \in DOMAIN sockets, code \in CloseCodes :
           wsClose(k, code) =>
             IF code = 1000
               THEN /\ reconnectTimers' = reconnectTimers
                    /\ "disconnect" \in emitted'
               ELSE /\ reconnectTimers' = reconnectTimers (+) SetToBag({now + 5000})
                    /\ "disconnect" \notin emitted'
       ]_vars
  /\ []((sockets # <<>> /\ sockets[Len(sockets)].code = 1000) =>
          reconnectTimers = EmptyBag /\ discovery = EmptyBag)
  /\ [][ \A at \in BagToSet(reconnectTimers) :
           reconnectFire(at) =>
             /\ now = at
             /\ discovery' = discovery (+) SetToBag({"reconnect"})
             /\ sockets' = sockets
       ]_vars
  /\ [][ discoveryOk("reconnect") =>
           /\ Len(sockets') = Len(sockets) + 1
           /\ sockets'[Len(sockets')].state = "connecting"
           /\ ws' = Len(sockets')
       ]_vars
  /\ [][ \A k \in DOMAIN sockets, data \in C14_Hellos :
           (wsMessage(k, data, FALSE) /\ ws = k /\ sockets[k].state = "open") =>
             /\ Len(frames') = 1
             /\ frames'[1].op = OpIdentify
             /\ frames'[1].socket = k
       ]_vars
  /\ [](\A i \in 1..Len(frames) :
          frames[i].op \in {OpIdentify, OpHeartbeat} /\ frames[i].op # OpResume)

\* C14 witness: the first socket closed with code 1006 at time 0, and the socket of
\* the reconnect that started at 5000 has sent its IDENTIFY on HELLO.
C14_Witness ==
  /\ Len(sockets) = 2
  /\ sockets[1].code = 1006
  /\ sockets[2].state = "open"
  /\ sockets[2].identifies = 1
  /\ now = 5000

\* C15: when the socket is closed with the authentication-failure code after the
\* IDENTIFY was sent on it and before READY, the client emits 'error' and schedules
\* no reconnect.
C15_AuthFailureNotRetried ==
  [][ \A k \in DOMAIN sockets :
        (wsClose(k, AuthFailedClose) /\ sockets[k].identifies > 0 /\ ~connected) =>
          /\ "error" \in emitted'
          /\ reconnectTimers' = reconnectTimers
    ]_vars

\* C16: at most one heartbeat interval is armed at any time, and no interval armed
\* by the HELLO of a socket is still armed once that socket has closed.
C16_OneHeartbeatTimer ==
  /\ Cardinality(DOMAIN intervals) <= 1
  /\ \A id \in DOMAIN intervals : sockets[intervals[id].socket].state # "closed"

\* C17: a heartbeat sent on a socket carries the initial empty sequence number or one
\* received on that socket, never one received on an earlier socket.
C17_SequenceOfThisConnection ==
  \A i \in 1..Len(frames) :
    frames[i].op = OpHeartbeat =>
      frames[i].d = NoSequence \/ frames[i].from = frames[i].socket

C19_LoginResolvesWhenReady ==
  [][ (loginPromise # "resolved" /\ loginPromise' = "resolved") =>
        connected' /\ user' # null
    ]_vars

\* C20: once destroy() has been called, connected stays false, no socket is created
\* and no frame (IDENTIFY or heartbeat) is sent.
C20_DestroyIsFinal ==
  /\ [](destroyed => ~connected)
  /\ [][ destroyed => Len(sockets') = Len(sockets) /\ frames' = <<>> ]_vars

\* the READY dispatches
C27_Readys ==
  {data \in Inbound : data.text = "json" /\ data.packet.op = OpDispatch
                        /\ data.packet.t = "READY"}

\* C27: on each socket at most one IDENTIFY is ever sent, and an IDENTIFY is sent only
\* by the handler of a HELLO of that socket; connected turns true only in the handler
\* of a READY dispatch; every socket close and destroy() leave connected false; and
\* connected implies that user is set.
C27_HandshakeOrdering ==
  /\ [](\A k \in DOMAIN sockets : sockets[k].identifies <= 1)
  /\ [][ gatewayVars' # gatewayVars =>          \* a handler ran
           \A i \in 1..Len(frames') :
             frames'[i].op = OpIdentify =>
               \E data \in C14_Hellos : wsMessage(frames'[i].socket, data, FALSE)
       ]_vars
  /\ [][ (~connected /\ connected') =>
           \E k \in DOMAIN sockets, data \in C27_Readys : wsMessage(k, data, FALSE)
       ]_vars
  /\ [][ (clientDestroy \/ \E k \in DOMAIN sockets, code \in CloseCodes : wsClose(k, code))
           => ~connected'
       ]_vars
  /\ [](connected => user # null)


\* C38: a reconnect attempt whose gateway discovery fails is followed by a further
\* attempt: when the failure has been handled (the client not destroyed), a
\* reconnect timer or a further discovery request is pending.  Without it the
\* client cannot reach Connected again, however the gateway answers.
C38_FailedReconnectRetried ==
  [][ discoveryFail("reconnect") /\ ~destroyed =>
        \/ reconnectTimers' # EmptyBag
        \/ discovery' # EmptyBag
    ]_vars


\* ---- route normalization (SpecRoute)

\* The piece i of the path p is a numeric segment: a run of digits between two "/"
\* (or between a "/" and the end of the path).
C25_NumericSegment(p, i) ==
  /\ p[i] \in DigitRuns
  /\ i > 1 /\ p[i - 1] = "/"
  /\ i = Len(p) \/ p[i + 1] = "/"

\* The paths p and q differ at most in the values of their numeric segments.
C25_SameUpToNumericIds(p, q) ==
  /\ Len(p) = Len(q)
  /\ \A i \in 1..Len(p) :
       p[i] = q[i] \/ (C25_NumericSegment(p, i) /\ C25_NumericSegment(q, i))

\* C25: throttle() and _getAPIRoute each give two paths that differ only in the
\* values of their numeric segments the same route key (so the two share one entry
\* of every Map keyed by it), and give two paths that differ in a non-numeric
\* segment different keys.
C25_KeysCollapseNumericIdsOnly ==
  /\ formattedRoutes # <<>> =>
       (formattedRoutes[1] = formattedRoutes[2]
          <=> C25_SameUpToNumericIds(paths[1], paths[2]))
  /\ apiRoutes # <<>> =>
       (apiRoutes[1] = apiRoutes[2]
          <=> C25_SameUpToNumericIds(paths[1], paths[2]))


\* ---- EventTracker (SpecTracker)

\* the subscriptions with the callback cb that match the event and whose own
\* unsubscribe function has not been called
C39_Subscribed(cb, eventName) ==
  {h \in 1..Len(handles) :
     /\ handles[h].callback = cb
     /\ handles[h].calls = 0
     /\ Matches(handles[h].patternKey, eventName)}

\* C39: an unsubscribe function removes its own subscription and no other, however
\* often and whenever it is called: for the event trackEvent just recorded, each
\* callback has been invoked once for every matching subscription whose own
\* unsubscribe function was never called (no such subscription is removed or
\* silenced by another one's function), and not more often than that (a
\* subscription whose function was called is no longer served).
C39_UnsubscribeRemovesOnlyOwn ==
  notified.event # <<>> =>
    \A cb \in Callbacks :
      notified.invoked[cb] = Cardinality(C39_Subscribed(cb, notified.event))

=============================================================================
